---- MODULE Spec2Model ----
(***************************************************************************)
(* Verification model of the harvest-link-chain crop price prediction      *)
(* service (src/ml-service): the prediction result formatting, the         *)
(* feature derivation at training and at prediction time, and the HTTP     *)
(* handlers of the basic, simple, enhanced and perfect API variants over   *)
(* their users / predictions / price_alerts tables.                        *)
(*                                                                         *)
(* Numbers.  Prices produced by a fitted model are floats in the code.     *)
(* Here a raw model output is an integer count of 1/10000 INR, a rounded   *)
(* price (round(x, 2)) is an integer count of 1/100 INR (cents).           *)
(***************************************************************************)
EXTENDS Integers, Sequences, FiniteSets, TLC

VARIABLES
    \* --- one call of a prediction function (SpecPredict) ---
    pPath,      \* prediction path under test: "perfect", "quick", "simple", "basic"
    encoders,   \* categories the path's encoders learned at fit, per column
    pIn,        \* the input mapping of the prediction call under test
    sPc,        \* start_ai_service.main: the step it is about to run
    sMissing,   \* check_dependencies: missing_packages
    sLog,       \* start_ai_service.main: the steps it ran, with what they returned
    pRaw,       \* the value model.predict(df)[0] returned, in 1/10000 INR
    pOut,       \* the result mapping the path returned, or NoResult
    \* --- one service process and its database (Spec) ---
    variant,    \* which app module runs: "basic", "simple", "enhanced", "perfect"
    atStart,    \* the variant's model file(s) as the process found them when it started
    artifact,   \* the variant's model file(s) now: "ok", "absent", "corrupt"
    dataFile,   \* data/processed/crop_prices.csv: "ok", "missing"
    phase,      \* "start" (module not yet imported), "serving", "crashed"
    modelLoaded,\* the module-level handle (PREDICT_FN / MODEL / model, encoders) is not None
    fitted,     \* the fitted model the handle holds: crop -> its output, in 1/10000 INR
    users,      \* rows of the users table, in id order
    predictions,\* rows of the predictions table, in id order
    alerts,     \* rows of the price_alerts table, in id order
    issued,     \* the bearer tokens POST /token has returned
    now,        \* the clock, in minutes
    served,     \* requests answered so far
    resp,       \* the last request with its response
    \* --- the two feature derivations on one dataset row (SpecFeat) ---
    fData,      \* the rows of data/processed/crop_prices.csv, in file order
    fRow,       \* the row looked at
    fMode,      \* what predict() is given: "request" (the fields of an API request)
                \* or "frame" (the row as it is, with its date and price)
    fTrain,     \* the row's features as load_and_prepare_data computes them, or NoResult
    fPred,      \* the row's features as _apply_feature_engineering computes them, or NoResult
    fQuick,     \* the row's features as train_quick_model.predict_price computes them, or NoResult
    fSimple,    \* the row's features as main_simple's predict_price computes them, or NoResult
    fLog,       \* the calls of _apply_feature_engineering on one predictor, in order:
                \* <<[input, out]>> (SpecCalls)
    \* --- one call of PerfectCropPricePredictor.train (SpecTrain) ---
    tPc,              \* where train() is: "idle", "start", "loaded", "split", "trained",
                      \* "ensembled", "stored", "done", or "raised" (an exception left it)
    model_performance,\* self.model_performance: <<[name, r2]>> in insertion order
    models,           \* self.models: the names of the fitted pipelines, in insertion order
    best_model,       \* self.best_model
    best_model_name,  \* what train_ensemble_models returned, "" before
    ensemble_model,   \* train()'s local ensemble_model
    modelFile,        \* content of models/perfect_crop_price_model.pkl
    metadataFile,     \* content of models/model_metadata.json
    tPredict          \* the outcome of a predict() call after train(), or NoResult

predVars == <<pPath, pRaw, pOut, encoders, pIn>>

startVars == <<sPc, sMissing, sLog>>

featVars == <<fData, fRow, fMode, fTrain, fPred, fQuick, fSimple, fLog>>

trainVars == <<tPc, model_performance, models, best_model, best_model_name, ensemble_model,
               modelFile, metadataFile, tPredict>>

apiVars == <<variant, atStart, artifact, dataFile, phase, modelLoaded, fitted, users,
             predictions, alerts, issued, now, served, resp>>

vars == <<pPath, pRaw, pOut, encoders, pIn, sPc, sMissing, sLog, variant, atStart, artifact, dataFile, phase, modelLoaded, fitted,
          users, predictions, alerts, issued, now, served, resp,
          fData, fRow, fMode, fTrain, fPred, fQuick, fSimple, fLog,
          tPc, model_performance, models, best_model, best_model_name, ensemble_model,
          modelFile, metadataFile, tPredict>>

NoResult == [none |-> TRUE]

\* start_ai_service.main is not running
StartIdle ==
    /\ sPc = "idle"
    /\ sMissing = {}
    /\ sLog = << >>

(***************************************************************************)
(* Bounds of the model.                                                    *)
(***************************************************************************)
MaxRaw == 10500

\* requests one run of the service answers
MaxRequests == 3

\* items of one POST /predict/batch body
MaxBatch == 2

\* the clock advances in steps of TickMinutes up to MaxNow
TickMinutes == 31

MaxNow == 31

Abs(x) == IF x < 0 THEN -x ELSE x

(***************************************************************************)
(* round(n / d) to the nearest integer, ties to the even neighbour: what   *)
(* Python's round(x, 2) does on the value scaled to cents.                 *)
(***************************************************************************)
RoundHalfEven(n, d) ==
    LET q == n \div d
        r == n % d
    IN  IF 2 * r > d THEN q + 1
        ELSE IF 2 * r < d THEN q
        ELSE IF q % 2 = 0 THEN q ELSE q + 1

\* round(prediction, 2): 1/10000 INR -> cents
RoundedPrice(raw) == RoundHalfEven(raw, 100)

\* A variant of ConfidenceInterval that cuts the bounds off instead of rounding
\* them (int(x * 100) / 100).
ConfidenceIntervalTruncated(raw) ==
    << (9 * raw) \div 1000, (11 * raw) \div 1000 >>

\* [round(prediction * 0.9, 2), round(prediction * 1.1, 2)], in cents; the
\* bounds are taken from the unrounded prediction.
ConfidenceInterval(raw) ==
    << RoundHalfEven(9 * raw, 1000), RoundHalfEven(11 * raw, 1000) >>

\* PerfectCropPricePredictor.predict: the returned mapping
PerfectPredictResult(raw) ==
    [ predicted_price     |-> RoundedPrice(raw),
      confidence_interval |-> ConfidenceInterval(raw),
      currency            |-> "INR",
      model_type          |-> "Ensemble" ]

\* train_quick_model.predict_price: the returned mapping
QuickPredictResult(raw) ==
    [ predicted_price     |-> RoundedPrice(raw),
      confidence_interval |-> ConfidenceInterval(raw),
      currency            |-> "INR",
      model_type          |-> "RandomForest" ]

\* main_simple.predict_price: the PredictionResponse it builds
SimplePredictResult(raw) ==
    [ predicted_price     |-> RoundedPrice(raw),
      confidence_interval |-> ConfidenceInterval(raw),
      currency            |-> "INR",
      model_type          |-> "RandomForest" ]

\* main.predict_price (POST /api/predict): the returned mapping; it carries
\* no model_metadata
BasicPredictResult(raw) ==
    [ predicted_price     |-> RoundedPrice(raw),
      confidence_interval |-> ConfidenceInterval(raw),
      currency            |-> "INR",
      model_type          |-> "none" ]

PredictionPaths == {"perfect", "quick", "simple", "basic"}

PathResult(path, raw) ==
    CASE path = "perfect" -> PerfectPredictResult(raw)
      [] path = "quick"   -> QuickPredictResult(raw)
      [] path = "simple"  -> SimplePredictResult(raw)
      [] path = "basic"   -> BasicPredictResult(raw)

(***************************************************************************)
(* The service process: configuration                                      *)
(***************************************************************************)
ACCESS_TOKEN_EXPIRE_MINUTES == 30

Variants == {"basic", "simple", "enhanced", "perfect"}

\* variants with accounts and bearer tokens
AuthVariants == {"enhanced", "perfect"}

ArtifactStates == {"ok", "absent", "corrupt"}

DataStates == {"ok", "missing"}

\* what a loaded handle computes: the fitted pipeline is a fixed function of
\* the request; the model keeps its dependence on the crop.  A voting ensemble
\* with linear members is not bounded below.
FittedModels ==
    { [ Rice |-> 31000000, Onion |-> -10500 ],
      [ Rice |-> 20004900, Onion |-> 31000000 ] }

\* the handle is None
NoModel == [ Rice |-> 0, Onion |-> 0 ]

Usernames == {"alice", "bob"}

Emails == {"a@farm.in", "b@farm.in"}

Passwords == {"pw1", "pw2"}

\* the password each client of the model registers with
Credentials == [ alice |-> "pw1", bob |-> "pw2" ]

NoResp ==
    [ ep |-> "none", status |-> 0, detail |-> "", req |-> <<>>,
      entered |-> FALSE, derived |-> FALSE, body |-> <<>> ]

\* a request with its response: entered = the handler body began to run,
\* derived = feature derivation / the model was reached
Response(ep, status, detail, req, entered, derived, body) ==
    [ ep |-> ep, status |-> status, detail |-> detail, req |-> req,
      entered |-> entered, derived |-> derived, body |-> body ]

(***************************************************************************)
(* Startup: the module-level model loading of each variant                 *)
(***************************************************************************)

\* PerfectCropPricePredictor.load_model: joblib.load(model_path)
LoadModel(art) ==
    CASE art = "ok"      -> "loaded"
      [] art = "absent"  -> "FileNotFoundError"
      [] art = "corrupt" -> "Exception"

\* PerfectCropPricePredictor.train(file_path): fits and saves, or raises on a
\* missing or malformed input file
Train(data) == IF data = "ok" THEN "trained" ELSE "Exception"

\* create_prediction_pipeline(): predictor.predict ("fn"), or the exception
\* that escapes it
CreatePredictionPipeline(art, data) ==
    LET l == LoadModel(art)
    IN  IF l = "loaded" THEN "fn"
        ELSE IF l = "FileNotFoundError"
             THEN (IF Train(data) = "trained" THEN "fn" ELSE "Exception")
             ELSE "Exception"

\* A variant of PerfectStartup that only loads the artifact and never trains.
PerfectStartupLoadOnly(art, data) ==
    [ phase |-> "serving", loaded |-> LoadModel(art) = "loaded", artifact |-> art ]

\* main_perfect, module level: PREDICT_FN = create_prediction_pipeline(); on
\* any exception a new predictor is trained; on a second exception PREDICT_FN
\* stays None.  Both exceptions are caught: the import completes.
PerfectStartup(art, data) ==
    [ phase    |-> "serving",
      loaded   |-> IF CreatePredictionPipeline(art, data) = "fn" THEN TRUE
                   ELSE Train(data) = "trained",
      \* train() ends with save_models(): joblib.dump writes the artifact
      artifact |-> IF LoadModel(art) # "loaded" /\ Train(data) = "trained"
                   THEN "ok" ELSE art ]

\* main_simple, module level: MODEL = joblib.load(...), None on any exception
SimpleStartup(art) ==
    [ phase |-> "serving", loaded |-> LoadModel(art) = "loaded", artifact |-> art ]

\* main, module level: model and encoders are loaded in one try block; on any
\* exception both are None
BasicStartup(art) ==
    [ phase |-> "serving", loaded |-> LoadModel(art) = "loaded", artifact |-> art ]

\* main_enhanced, module level: train_enhanced_model defines no
\* create_prediction_pipeline, so the import raises ImportError, which is
\* caught: PREDICT_FN stays None whatever files exist
EnhancedStartup(art) ==
    [ phase |-> "serving", loaded |-> FALSE, artifact |-> art ]

StartupOutcome(v, art, data) ==
    CASE v = "perfect"  -> PerfectStartup(art, data)
      [] v = "simple"   -> SimpleStartup(art)
      [] v = "basic"    -> BasicStartup(art)
      [] v = "enhanced" -> EnhancedStartup(art)

\* the module import: init_db (CREATE TABLE IF NOT EXISTS) and the model loading
Startup ==
    /\ phase = "start"
    /\ phase' = StartupOutcome(variant, artifact, dataFile).phase
    /\ modelLoaded' = StartupOutcome(variant, artifact, dataFile).loaded
    /\ fitted' \in (IF StartupOutcome(variant, artifact, dataFile).loaded
                    THEN FittedModels ELSE {NoModel})
    /\ artifact' = StartupOutcome(variant, artifact, dataFile).artifact
    /\ UNCHANGED <<variant, atStart, dataFile, users, predictions, alerts,
                   issued, now, served, resp>>
    /\ UNCHANGED <<startVars, predVars, featVars, trainVars>>

\* time passes between requests
Tick ==
    /\ phase = "serving"
    /\ now + TickMinutes <= MaxNow
    /\ now' = now + TickMinutes
    /\ UNCHANGED <<variant, atStart, artifact, dataFile, phase, modelLoaded, fitted, users,
                   predictions, alerts, issued, served, resp>>
    /\ UNCHANGED <<startVars, predVars, featVars, trainVars>>

\* a request can be answered
Serving == phase = "serving" /\ served < MaxRequests

(***************************************************************************)
(* Accounts and tokens (main_perfect, main_enhanced)                       *)
(***************************************************************************)

\* pwd_context.hash / pwd_context.verify
GetPasswordHash(password) == <<"bcrypt", password>>

VerifyPassword(plain, hashed) == hashed = GetPasswordHash(plain)

\* get_user: SELECT * FROM users WHERE username = ?
UserRows(username) == { i \in 1..Len(users) : users[i].username = username }

HasUser(username) == UserRows(username) # {}

GetUser(username) ==
    users[CHOOSE i \in UserRows(username) : \A j \in UserRows(username) : i <= j]

\* authenticate_user
AuthenticateUser(username, password) ==
    /\ HasUser(username)
    /\ VerifyPassword(password, GetUser(username).hashed_password)

\* create_access_token({"sub": username}, 30 minutes): a JWT signed with SECRET_KEY
CreateAccessToken(username, t) ==
    [ sub |-> username, exp |-> t + ACCESS_TOKEN_EXPIRE_MINUTES, sig |-> "server" ]

\* no Authorization header
NoToken == [ sub |-> "", exp |-> 0, sig |-> "none" ]

\* A variant of JwtDecodes that does not check the exp claim.
JwtDecodesIgnoringExpiry(token, t) == token.sig = "server"

\* jwt.decode(token, SECRET_KEY): the signature verifies and exp is not in the past
JwtDecodes(token, t) == token.sig = "server" /\ ~(token.exp < t)

\* get_current_user: the user the token names, or 401
CurrentUserOk(token) ==
    /\ token # NoToken
    /\ JwtDecodes(token, now)
    /\ token.sub # ""
    /\ HasUser(token.sub)

\* what a client can put in the Authorization header: nothing, a token the
\* service issued, or a token signed with another key
PresentableTokens ==
    {NoToken} \cup issued
      \cup { [ sub |-> "alice", exp |-> now + ACCESS_TOKEN_EXPIRE_MINUTES,
                sig |-> "forged" ] }

\* what a response records of the token presented: whether the service issued
\* it, it has not expired and its user exists, and then the user it names
IssuedAndFresh(token) ==
    /\ token \in issued
    /\ now <= token.exp
    /\ \E i \in 1..Len(users) : users[i].username = token.sub

Presented(token) ==
    [ good      |-> IssuedAndFresh(token),
      wasIssued |-> token \in issued,
      sub       |-> IF IssuedAndFresh(token) THEN token.sub ELSE "" ]

\* oauth2_scheme / get_current_user: the 401 detail
AuthDetail(token) ==
    IF token = NoToken THEN "Not authenticated" ELSE "Could not validate credentials"

\* A variant of DuplicateUser that looks at the username only.
DuplicateUsernameOnly(username, email) ==
    \E i \in 1..Len(users) : users[i].username = username

\* register_user: SELECT * FROM users WHERE username = ? OR email = ?
DuplicateUser(username, email) ==
    \E i \in 1..Len(users) : users[i].username = username \/ users[i].email = email

\* init_db: username TEXT UNIQUE, email TEXT UNIQUE (the INSERT raises
\* IntegrityError on a repeated value)
UniqueViolation(username, email) ==
    \E i \in 1..Len(users) : users[i].username = username \/ users[i].email = email

\* the users row an INSERT creates (id INTEGER PRIMARY KEY AUTOINCREMENT)
NewUserRow(username, email, password) ==
    [ id |-> Len(users) + 1, username |-> username, email |-> email,
      hashed_password |-> GetPasswordHash(password) ]

\* POST /register
RegisterUser(username, email, password) ==
    /\ Serving
    /\ variant \in AuthVariants
    /\ LET req == [ username |-> username, email |-> email ]
       IN  IF DuplicateUser(username, email)
           THEN /\ users' = users
                /\ resp' = Response("register", 400, "Username or email already registered",
                                    req, TRUE, FALSE, <<>>)
           ELSE IF UniqueViolation(username, email)
           THEN /\ users' = users
                /\ resp' = Response("register", 500, "IntegrityError", req, TRUE, FALSE, <<>>)
           ELSE /\ users' = Append(users, NewUserRow(username, email, password))
                /\ resp' = Response("register", 200, "", req, TRUE, FALSE,
                                    [ id |-> Len(users) + 1, username |-> username,
                                      email |-> email ])
    /\ served' = served + 1
    /\ UNCHANGED <<variant, atStart, artifact, dataFile, phase, modelLoaded, fitted, predictions,
                   alerts, issued, now>>
    /\ UNCHANGED <<startVars, predVars, featVars, trainVars>>

\* POST /token
LoginForAccessToken(username, password) ==
    /\ Serving
    /\ variant \in AuthVariants
    /\ LET req == [ username |-> username, password |-> password ]
       IN  IF AuthenticateUser(username, password)
           THEN /\ issued' = issued \cup {CreateAccessToken(username, now)}
                /\ resp' = Response("token", 200, "", req, TRUE, FALSE,
                                    CreateAccessToken(username, now))
           ELSE /\ issued' = issued
                /\ resp' = Response("token", 401, "Incorrect username or password",
                                    req, TRUE, FALSE, <<>>)
    /\ served' = served + 1
    /\ UNCHANGED <<variant, atStart, artifact, dataFile, phase, modelLoaded, fitted, users,
                   predictions, alerts, now>>
    /\ UNCHANGED <<startVars, predVars, featVars, trainVars>>

(***************************************************************************)
(* Prediction requests                                                     *)
(***************************************************************************)

\* the sample request of the repository (train_perfect_ai_model.py, __main__);
\* has_area = FALSE stands for an absent (None) area
BaseInput ==
    [ crop |-> "Rice", state |-> "Punjab", soil_type |-> "Alluvial", month |-> 10,
      temperature |-> 28, rainfall |-> 120, humidity |-> 65,
      prev_year_price |-> 2000, has_area |-> FALSE, area |-> 0 ]

AreaInput ==
    [ BaseInput EXCEPT !.crop = "Onion", !.month = 6, !.temperature = 38,
                       !.rainfall = 5, !.has_area = TRUE, !.area = 2 ]

BadMonthInput == [ AreaInput EXCEPT !.month = 13 ]

BadHumidityInput == [ AreaInput EXCEPT !.humidity = 101 ]

BadPriceInput == [ AreaInput EXCEPT !.prev_year_price = 0 ]

BadAreaInput == [ AreaInput EXCEPT !.area = 0 ]

ApiInputs ==
    { BaseInput, AreaInput, BadMonthInput, BadHumidityInput, BadPriceInput,
      BadAreaInput }


\* the users table a run can find in its SQLite file, which outlives the
\* process: empty, or the rows earlier registrations left
StoredUsers ==
    { << >>,
      << [ id |-> 1, username |-> "alice", email |-> "a@farm.in",
           hashed_password |-> <<"bcrypt", "pw1">> ] >> }


\* where a handler's try block can raise
Faults == { "none", "derive", "infer", "insight", "persist" }

\* the ranges the interface documents: month 1..12, humidity 0..100,
\* prev_year_price > 0, area > 0 when given
InDocumentedRanges(inp) ==
    /\ inp.month \in 1..12
    /\ inp.humidity >= 0 /\ inp.humidity <= 100
    /\ inp.prev_year_price > 0
    /\ (inp.has_area => inp.area > 0)

\* main_perfect.PredictionInput
ValidPerfect(inp) ==
    /\ inp.month >= 1 /\ inp.month <= 12
    /\ inp.humidity >= 0 /\ inp.humidity <= 100
    /\ inp.prev_year_price > 0
    /\ (inp.has_area => inp.area > 0)

\* main_simple.PredictionInput (it has no area field)
ValidSimple(inp) ==
    /\ inp.month >= 1 /\ inp.month <= 12
    /\ inp.humidity >= 0 /\ inp.humidity <= 100
    /\ inp.prev_year_price > 0

\* main_enhanced.PredictionInput: month is range-checked, area is required
\* and > 0; humidity and prev_year_price are plain floats
ValidEnhanced(inp) ==
    /\ inp.month >= 1 /\ inp.month <= 12
    /\ inp.has_area /\ inp.area > 0

\* main.CropPredictionInput: typed fields without ranges; area is required
ValidBasic(inp) == inp.has_area

Validates(v, inp) ==
    CASE v = "perfect"  -> ValidPerfect(inp)
      [] v = "simple"   -> ValidSimple(inp)
      [] v = "enhanced" -> ValidEnhanced(inp)
      [] v = "basic"    -> ValidBasic(inp)

\* A variant of ModelUnavailable that never answers 503.
ModelUnavailableNever == FALSE

\* `if not PREDICT_FN` / `if MODEL is None` / `if model is None or encoders is None`
ModelUnavailable == ~modelLoaded

\* A variant of CaughtStatus in which the history INSERT sits outside the try block.
CaughtStatusPersistEscapes(fault) == IF fault = "persist" THEN 500 ELSE 400

\* `except Exception as e: raise HTTPException(status_code=400, detail=str(e))`
CaughtStatus(fault) == 400

\* str.lower() on the crop names of the model
Lower(crop) ==
    CASE crop = "Rice"  -> "rice"
      [] crop = "Onion" -> "onion"
      [] OTHER          -> crop

\* generate_market_insights
GenerateMarketInsights(crop) ==
    LET base == [ price_trend |-> "Stable to increasing",
                  demand_forecast |-> "High demand expected",
                  weather_impact |-> "Favorable conditions",
                  market_volatility |-> "Low to moderate",
                  recommended_actions |-> << "Monitor weather forecasts closely",
                                             "Consider staggered selling strategy",
                                             "Check local market prices regularly" >> ]
    IN  IF Lower(crop) \in {"rice", "wheat"}
        THEN [ base EXCEPT !.price_trend = "Stable with seasonal variations",
                           !.demand_forecast = "Consistent high demand" ]
        ELSE IF Lower(crop) \in {"cotton", "sugarcane"}
        THEN [ base EXCEPT !.price_trend = "Volatile with export dependencies",
                           !.market_volatility = "High" ]
        ELSE IF Lower(crop) \in {"potato", "onion"}
        THEN [ base EXCEPT !.price_trend = "Highly seasonal",
                           !.market_volatility = "Very high",
                           !.recommended_actions =
                               Append(@, "Consider cold storage for better prices") ]
        ELSE base

\* generate_recommendations; predicted_price is in cents
GenerateRecommendations(result, inp) ==
    (IF result.predicted_price > 300000
     THEN << "High price predicted - consider selling soon" >>
     ELSE IF result.predicted_price < 150000
     THEN << "Low price predicted - consider holding or finding better markets" >>
     ELSE << >>)
    \o (IF inp.temperature > 35
        THEN << "High temperature detected - monitor crop health closely" >> ELSE << >>)
    \o (IF inp.rainfall < 50
        THEN << "Low rainfall - consider irrigation if possible" >> ELSE << >>)
    \o (IF inp.month \in {10, 11, 12, 1, 2}
        THEN << "Winter season - prices typically stable" >>
        ELSE IF inp.month \in {6, 7, 8, 9}
        THEN << "Monsoon season - monitor for weather-related price fluctuations" >>
        ELSE << >>)

\* the result of main_perfect's handlers: the predictor's result with the
\* insights and recommendations added
WithInsights(result, inp) ==
    result @@ [ market_insights |-> GenerateMarketInsights(inp.crop),
                recommendations |-> GenerateRecommendations(result, inp) ]

\* A variant of PredictionRow that stores the result as PREDICT_FN returned it,
\* before the insights and recommendations were added.
PredictionRowOfBareResult(rows, uid, inp, result) ==
    [ id |-> Len(rows) + 1, user_id |-> uid, timestamp |-> now,
      input_data |-> inp,
      prediction_result |->
          [ k \in DOMAIN result \ {"market_insights", "recommendations"} |-> result[k] ],
      model_used |-> "perfect_ai" ]

\* the predictions row an INSERT creates
PredictionRow(rows, uid, inp, result) ==
    [ id |-> Len(rows) + 1, user_id |-> uid, timestamp |-> now,
      input_data |-> inp, prediction_result |-> result, model_used |-> "perfect_ai" ]

\* what a response records of a prediction request: the token presented,
\* whether every input lies in the documented ranges, the number of inputs,
\* and where the try block raised
PredictReq(tok, inRange, n, fault, at) ==
    [ tok |-> Presented(tok), inRange |-> inRange, n |-> n, fault |-> fault, at |-> at ]

\* main_perfect: POST /predict.  Dependencies (the bearer token) are resolved
\* first, then the body is validated, then the handler runs.
PredictPerfect(tok, inp) ==
    /\ Serving
    /\ variant = "perfect"
    /\ \/ /\ ~CurrentUserOk(tok)
          /\ resp' = Response("predict", 401, AuthDetail(tok),
                              PredictReq(tok, InDocumentedRanges(inp), 1, "none", 0),
                              FALSE, FALSE, <<>>)
          /\ predictions' = predictions
       \/ /\ CurrentUserOk(tok)
          /\ ~Validates(variant, inp)
          /\ resp' = Response("predict", 422, "validation error",
                              PredictReq(tok, InDocumentedRanges(inp), 1, "none", 0),
                              FALSE, FALSE, <<>>)
          /\ predictions' = predictions
       \/ /\ CurrentUserOk(tok)
          /\ Validates(variant, inp)
          /\ ModelUnavailable
          /\ resp' = Response("predict", 503, "Prediction service not available",
                              PredictReq(tok, InDocumentedRanges(inp), 1, "none", 0),
                              TRUE, FALSE, <<>>)
          /\ predictions' = predictions
       \/ /\ CurrentUserOk(tok)
          /\ Validates(variant, inp)
          /\ ~ModelUnavailable
          /\ \E fault \in Faults :
               LET req    == PredictReq(tok, InDocumentedRanges(inp), 1, fault, 0)
                   result == WithInsights(PerfectPredictResult(fitted[inp.crop]), inp)
                   uid    == GetUser(tok.sub).id
               IN  IF ~modelLoaded
                   THEN \* PREDICT_FN is None: the call itself raises TypeError
                        /\ resp' = Response("predict", CaughtStatus(fault),
                                            "TypeError", req, TRUE, FALSE, <<>>)
                        /\ predictions' = predictions
                   ELSE IF fault # "none"
                   THEN /\ resp' = Response("predict", CaughtStatus(fault), fault,
                                            req, TRUE, TRUE, <<>>)
                        /\ predictions' = predictions
                   ELSE /\ resp' = Response("predict", 200, "", req, TRUE, TRUE, result)
                        /\ predictions' =
                               Append(predictions,
                                      PredictionRow(predictions, uid, inp, result))
    /\ served' = served + 1
    /\ UNCHANGED <<variant, atStart, artifact, dataFile, phase, modelLoaded, fitted, users, alerts,
                   issued, now>>
    /\ UNCHANGED <<startVars, predVars, featVars, trainVars>>

\* main_enhanced: POST /predict.  UserInDB has no id field there, so the
\* history INSERT (current_user.id) raises AttributeError inside the try block.
PredictEnhanced(tok, inp) ==
    /\ Serving
    /\ variant = "enhanced"
    /\ \E fault \in Faults :
         LET req  == PredictReq(tok, InDocumentedRanges(inp), 1, fault, 0)
             req0 == PredictReq(tok, InDocumentedRanges(inp), 1, "none", 0)
         IN  resp' =
               IF ~CurrentUserOk(tok)
               THEN Response("predict", 401, AuthDetail(tok), req0, FALSE, FALSE, <<>>)
               ELSE IF ~Validates(variant, inp)
               THEN Response("predict", 422, "validation error", req0,
                             FALSE, FALSE, <<>>)
               ELSE IF ModelUnavailable
               THEN Response("predict", 503, "Prediction service not available", req0,
                             TRUE, FALSE, <<>>)
               ELSE IF ~modelLoaded
               THEN Response("predict", CaughtStatus(fault), "TypeError", req,
                             TRUE, FALSE, <<>>)
               ELSE IF fault \in {"derive", "infer"}
               THEN Response("predict", CaughtStatus(fault), fault, req,
                             TRUE, TRUE, <<>>)
               ELSE Response("predict", CaughtStatus("persist"), "AttributeError", req,
                             TRUE, TRUE, <<>>)
    /\ served' = served + 1
    /\ UNCHANGED <<variant, atStart, artifact, dataFile, phase, modelLoaded, fitted, users, predictions,
                   alerts, issued, now>>
    /\ UNCHANGED <<startVars, predVars, featVars, trainVars>>

\* main_simple: POST /predict (no authentication, no history).  The feature
\* columns are derived before MODEL.predict is called.
PredictSimple(inp) ==
    /\ Serving
    /\ variant = "simple"
    /\ \/ /\ ~Validates(variant, inp)
          /\ resp' = Response("predict", 422, "validation error",
                              PredictReq(NoToken, InDocumentedRanges(inp), 1, "none", 0),
                              FALSE, FALSE, <<>>)
       \/ /\ Validates(variant, inp)
          /\ ModelUnavailable
          /\ resp' = Response("predict", 503, "Model not available",
                              PredictReq(NoToken, InDocumentedRanges(inp), 1, "none", 0),
                              TRUE, FALSE, <<>>)
       \/ /\ Validates(variant, inp)
          /\ ~ModelUnavailable
          /\ \E fault \in {"none", "derive", "infer"} :
               LET req == PredictReq(NoToken, InDocumentedRanges(inp), 1, fault, 0)
               IN  resp' =
                     IF fault = "derive"
                     THEN Response("predict", CaughtStatus(fault), fault, req,
                                   TRUE, TRUE, <<>>)
                     ELSE IF ~modelLoaded
                     THEN \* MODEL is None: MODEL.predict raises AttributeError
                          Response("predict", CaughtStatus(fault), "AttributeError",
                                   req, TRUE, TRUE, <<>>)
                     ELSE IF fault = "infer"
                     THEN Response("predict", CaughtStatus(fault), fault, req,
                                   TRUE, TRUE, <<>>)
                     ELSE Response("predict", 200, "", req, TRUE, TRUE,
                                   SimplePredictResult(fitted[inp.crop]))
    /\ served' = served + 1
    /\ UNCHANGED <<variant, atStart, artifact, dataFile, phase, modelLoaded, fitted, users, predictions,
                   alerts, issued, now>>
    /\ UNCHANGED <<startVars, predVars, featVars, trainVars>>

\* main: POST /api/predict (no authentication, no history).  "derive" is the
\* label encoding of crop and state, "infer" is model.predict.
PredictBasic(inp) ==
    /\ Serving
    /\ variant = "basic"
    /\ \/ /\ ~Validates(variant, inp)
          /\ resp' = Response("predict", 422, "validation error",
                              PredictReq(NoToken, InDocumentedRanges(inp), 1, "none", 0),
                              FALSE, FALSE, <<>>)
       \/ /\ Validates(variant, inp)
          /\ ModelUnavailable
          /\ resp' = Response("predict", 503, "Model not loaded",
                              PredictReq(NoToken, InDocumentedRanges(inp), 1, "none", 0),
                              TRUE, FALSE, <<>>)
       \/ /\ Validates(variant, inp)
          /\ ~ModelUnavailable
          /\ \E fault \in {"none", "derive", "infer"} :
               LET req == PredictReq(NoToken, InDocumentedRanges(inp), 1, fault, 0)
               IN  resp' =
                     IF ~modelLoaded
                     THEN \* encoders is None: `col in encoders` raises TypeError
                          Response("predict", CaughtStatus(fault), "TypeError",
                                   req, TRUE, FALSE, <<>>)
                     ELSE IF fault # "none"
                     THEN Response("predict", CaughtStatus(fault), fault, req,
                                   TRUE, TRUE, <<>>)
                     ELSE Response("predict", 200, "", req, TRUE, TRUE,
                                   BasicPredictResult(fitted[inp.crop]))
    /\ served' = served + 1
    /\ UNCHANGED <<variant, atStart, artifact, dataFile, phase, modelLoaded, fitted, users, predictions,
                   alerts, issued, now>>
    /\ UNCHANGED <<startVars, predVars, featVars, trainVars>>

(***************************************************************************)
(* main_perfect: POST /predict/batch                                       *)
(***************************************************************************)
RECURSIVE SumPrices(_)
SumPrices(results) ==
    IF results = << >> THEN 0
    ELSE results[1].predicted_price + SumPrices(Tail(results))

MinPrice(results) ==
    CHOOSE m \in { results[i].predicted_price : i \in 1..Len(results) } :
        \A i \in 1..Len(results) : m <= results[i].predicted_price

MaxPrice(results) ==
    CHOOSE m \in { results[i].predicted_price : i \in 1..Len(results) } :
        \A i \in 1..Len(results) : m >= results[i].predicted_price

\* A variant of BatchSummary whose price_range is [first price, last price].
BatchSummaryOfEnds(results, total) ==
    [ total_predictions |-> total,
      average_price     |-> RoundHalfEven(SumPrices(results), Len(results)),
      price_range       |-> << results[1].predicted_price,
                               results[Len(results)].predicted_price >>,
      currency          |-> "INR" ]

\* the summary of predict_batch (prices in cents): round(sum / len, 2), [min, max]
BatchSummary(results, total) ==
    [ total_predictions |-> total,
      average_price     |-> RoundHalfEven(SumPrices(results), Len(results)),
      price_range       |-> << MinPrice(results), MaxPrice(results) >>,
      currency          |-> "INR" ]

\* one item's result
BatchItemResult(inp, include_insights) ==
    IF include_insights
    THEN WithInsights(PerfectPredictResult(fitted[inp.crop]), inp)
    ELSE PerfectPredictResult(fitted[inp.crop])

\* where a batch can raise: nowhere, or at item `at` in step `kind`
BatchFaults(n) ==
    { [ at |-> 0, kind |-> "none" ] }
      \cup { [ at |-> k, kind |-> f ] : k \in 1..n, f \in {"infer", "persist"} }

\* the predictions table after the first w items were inserted and committed,
\* one by one
BatchRows(rows, uid, items, results, w) ==
    rows \o [ i \in 1..w |->
                [ id |-> Len(rows) + i, user_id |-> uid, timestamp |-> now,
                  input_data |-> items[i], prediction_result |-> results[i],
                  model_used |-> "perfect_ai" ] ]

AllInRanges(items) == \A i \in 1..Len(items) : InDocumentedRanges(items[i])

PredictBatch(tok, items, include_insights) ==
    /\ Serving
    /\ variant = "perfect"
    /\ \/ /\ ~CurrentUserOk(tok)
          /\ resp' = Response("batch", 401, AuthDetail(tok),
                              PredictReq(tok, AllInRanges(items), Len(items), "none", 0),
                              FALSE, FALSE, <<>>)
          /\ predictions' = predictions
       \/ /\ CurrentUserOk(tok)
          /\ \E i \in 1..Len(items) : ~Validates(variant, items[i])
          /\ resp' = Response("batch", 422, "validation error",
                              PredictReq(tok, AllInRanges(items), Len(items), "none", 0),
                              FALSE, FALSE, <<>>)
          /\ predictions' = predictions
       \/ /\ CurrentUserOk(tok)
          /\ \A i \in 1..Len(items) : Validates(variant, items[i])
          /\ ModelUnavailable
          /\ resp' = Response("batch", 503, "Prediction service not available",
                              PredictReq(tok, AllInRanges(items), Len(items), "none", 0),
                              TRUE, FALSE, <<>>)
          /\ predictions' = predictions
       \/ /\ CurrentUserOk(tok)
          /\ \A i \in 1..Len(items) : Validates(variant, items[i])
          /\ ~ModelUnavailable
          /\ \E fault \in BatchFaults(Len(items)) :
               LET n       == Len(items)
                   req     == PredictReq(tok, AllInRanges(items), n, fault.kind, fault.at)
                   uid     == GetUser(tok.sub).id
                   results == [ i \in 1..n |-> BatchItemResult(items[i], include_insights) ]
                   w       == IF fault.at = 0 THEN n ELSE fault.at - 1
               IN  IF n = 0
                   THEN \* sum(...) / len(results) raises ZeroDivisionError
                        /\ resp' = Response("batch", CaughtStatus("none"),
                                            "division by zero", req, TRUE, FALSE, <<>>)
                        /\ predictions' = predictions
                   ELSE IF ~modelLoaded
                   THEN /\ resp' = Response("batch", CaughtStatus(fault.kind),
                                            "TypeError", req, TRUE, FALSE, <<>>)
                        /\ predictions' = predictions
                   ELSE IF fault.at # 0
                   THEN /\ resp' = Response("batch", CaughtStatus(fault.kind),
                                            fault.kind, req, TRUE, TRUE, <<>>)
                        /\ predictions' = BatchRows(predictions, uid, items, results, w)
                   ELSE /\ resp' = Response("batch", 200, "", req, TRUE, TRUE,
                                            [ results |-> results,
                                              summary |-> BatchSummary(results, n) ])
                        /\ predictions' = BatchRows(predictions, uid, items, results, n)
    /\ served' = served + 1
    /\ UNCHANGED <<variant, atStart, artifact, dataFile, phase, modelLoaded, fitted, users, alerts,
                   issued, now>>
    /\ UNCHANGED <<startVars, predVars, featVars, trainVars>>

(***************************************************************************)
(* History, alerts, dashboard, health                                      *)
(***************************************************************************)

\* ORDER BY <column> DESC over the rows with the given indices, key[i] being
\* row i's value of the column; rows with equal keys come in rowid order
RECURSIVE OrderDesc(_, _, _)
OrderDesc(rows, idxs, key) ==
    IF idxs = {} THEN << >>
    ELSE LET i == CHOOSE i \in idxs :
                     \A j \in idxs : \/ key[i] > key[j]
                                     \/ (key[i] = key[j] /\ i <= j)
         IN  << rows[i] >> \o OrderDesc(rows, idxs \ {i}, key)

\* LIMIT ? OFFSET ? (SQLite: a negative LIMIT is no limit, a negative OFFSET
\* is no offset)
LimitOffset(seq, limit, offset) ==
    LET skip == IF offset < 0 THEN 0 ELSE offset
        last == IF limit < 0 \/ skip + limit > Len(seq) THEN Len(seq) ELSE skip + limit
    IN  SubSeq(seq, skip + 1, last)

\* WHERE user_id = ?
OwnedPredictions(uid) == { i \in 1..Len(predictions) : predictions[i].user_id = uid }

\* the columns the history query selects
HistoryColumns(row) ==
    [ id |-> row.id, timestamp |-> row.timestamp, input_data |-> row.input_data,
      prediction_result |-> row.prediction_result, model_used |-> row.model_used ]

\* SELECT id, timestamp, input_data, prediction_result, model_used FROM predictions
\* WHERE user_id = ? ORDER BY timestamp DESC LIMIT ? OFFSET ?
HistoryRows(uid, limit, offset) ==
    LET page == LimitOffset(OrderDesc(predictions, OwnedPredictions(uid),
                                      [ i \in 1..Len(predictions) |->
                                          predictions[i].timestamp ]),
                            limit, offset)
    IN  [ k \in 1..Len(page) |-> HistoryColumns(page[k]) ]

\* GET /predictions/history.  main_enhanced reads current_user.id, which its
\* UserInDB does not have: AttributeError, answered 500.
GetPredictionHistory(tok, limit, offset) ==
    /\ Serving
    /\ variant \in AuthVariants
    /\ LET req == [ tok |-> Presented(tok), limit |-> limit, offset |-> offset ]
       IN  resp' =
             IF ~CurrentUserOk(tok)
             THEN Response("history", 401, AuthDetail(tok), req, FALSE, FALSE, <<>>)
             ELSE IF variant = "enhanced"
             THEN Response("history", 500, "AttributeError", req, TRUE, FALSE, <<>>)
             ELSE Response("history", 200, "", req, TRUE, FALSE,
                           HistoryRows(GetUser(tok.sub).id, limit, offset))
    /\ served' = served + 1
    /\ UNCHANGED <<variant, atStart, artifact, dataFile, phase, modelLoaded, fitted, users, predictions,
                   alerts, issued, now>>
    /\ UNCHANGED <<startVars, predVars, featVars, trainVars>>

\* A variant of AlertRow that stores no owner (user_id 0 is no users row).
AlertRowWithoutOwner(uid, crop, target_price) ==
    [ id |-> Len(alerts) + 1, user_id |-> 0, crop |-> crop,
      target_price |-> target_price, is_active |-> TRUE, created_at |-> now,
      triggered |-> FALSE ]

\* A variant of AlertRow for a table whose is_active column defaults to false.
AlertRowStoredInactive(uid, crop, target_price) ==
    [ id |-> Len(alerts) + 1, user_id |-> uid, crop |-> crop,
      target_price |-> target_price, is_active |-> FALSE, created_at |-> now,
      triggered |-> FALSE ]

\* the price_alerts row an INSERT creates
AlertRow(uid, crop, target_price) ==
    [ id |-> Len(alerts) + 1, user_id |-> uid, crop |-> crop,
      target_price |-> target_price, is_active |-> TRUE, created_at |-> now,
      triggered |-> FALSE ]

\* POST /alerts
CreatePriceAlert(tok, crop, target_price) ==
    /\ Serving
    /\ variant \in AuthVariants
    /\ LET req == [ tok |-> Presented(tok), crop |-> crop, target_price |-> target_price ]
       IN  IF ~CurrentUserOk(tok)
           THEN /\ resp' = Response("alerts_post", 401, AuthDetail(tok), req,
                                    FALSE, FALSE, <<>>)
                /\ alerts' = alerts
           ELSE IF variant = "enhanced"
           THEN /\ resp' = Response("alerts_post", 500, "AttributeError", req,
                                    TRUE, FALSE, <<>>)
                /\ alerts' = alerts
           ELSE /\ resp' = Response("alerts_post", 201, "Price alert created successfully",
                                    req, TRUE, FALSE, <<>>)
                /\ alerts' = Append(alerts,
                                    AlertRow(GetUser(tok.sub).id, crop, target_price))
    /\ served' = served + 1
    /\ UNCHANGED <<variant, atStart, artifact, dataFile, phase, modelLoaded, fitted, users, predictions,
                   issued, now>>
    /\ UNCHANGED <<startVars, predVars, featVars, trainVars>>

\* A variant of OwnedAlerts without the user_id condition.
OwnedAlertsOfAnyone(uid, active_only) ==
    { i \in 1..Len(alerts) : active_only => alerts[i].is_active }

\* WHERE user_id = ? [AND is_active = 1]
OwnedAlerts(uid, active_only) ==
    { i \in 1..Len(alerts) :
        /\ alerts[i].user_id = uid
        /\ (active_only => alerts[i].is_active) }

\* the columns the alerts query selects, as the handler names them
AlertColumns(row) ==
    [ id |-> row.id, crop |-> row.crop, target_price |-> row.target_price,
      is_active |-> row.is_active, created_at |-> row.created_at ]

\* SELECT ... FROM price_alerts WHERE user_id = ? [AND is_active = 1]
\* ORDER BY created_at DESC
AlertRows(uid, active_only) ==
    LET rows == OrderDesc(alerts, OwnedAlerts(uid, active_only),
                          [ i \in 1..Len(alerts) |-> alerts[i].created_at ])
    IN  [ k \in 1..Len(rows) |-> AlertColumns(rows[k]) ]

\* GET /alerts
GetPriceAlerts(tok, active_only) ==
    /\ Serving
    /\ variant \in AuthVariants
    /\ LET req == [ tok |-> Presented(tok) ]
       IN  resp' =
             IF ~CurrentUserOk(tok)
             THEN Response("alerts_get", 401, AuthDetail(tok), req, FALSE, FALSE, <<>>)
             ELSE IF variant = "enhanced"
             THEN Response("alerts_get", 500, "AttributeError", req, TRUE, FALSE, <<>>)
             ELSE Response("alerts_get", 200, "", req, TRUE, FALSE,
                           AlertRows(GetUser(tok.sub).id, active_only))
    /\ served' = served + 1
    /\ UNCHANGED <<variant, atStart, artifact, dataFile, phase, modelLoaded, fitted, users, predictions,
                   alerts, issued, now>>
    /\ UNCHANGED <<startVars, predVars, featVars, trainVars>>

\* main_perfect: GET /analytics/dashboard.  Its second query selects a column
\* `crop` that the predictions table does not have, so the handler raises
\* sqlite3.OperationalError, answered 500.
GetAnalyticsDashboard(tok) ==
    /\ Serving
    /\ variant = "perfect"
    /\ resp' =
         IF ~CurrentUserOk(tok)
         THEN Response("dashboard", 401, AuthDetail(tok), [ tok |-> Presented(tok) ],
                       FALSE, FALSE, <<>>)
         ELSE Response("dashboard", 500, "OperationalError", [ tok |-> Presented(tok) ],
                       TRUE, FALSE, <<>>)
    /\ served' = served + 1
    /\ UNCHANGED <<variant, atStart, artifact, dataFile, phase, modelLoaded, fitted, users, predictions,
                   alerts, issued, now>>
    /\ UNCHANGED <<startVars, predVars, featVars, trainVars>>

\* A variant of HealthCheck that reports model_loaded without looking at the handle.
HealthCheckAlwaysLoaded ==
    /\ Serving
    /\ variant # "basic"
    /\ resp' = Response("health", 200, "", << >>, TRUE, FALSE,
                        [ status |-> "healthy", model_loaded |-> TRUE ])
    /\ served' = served + 1
    /\ UNCHANGED <<variant, atStart, artifact, dataFile, phase, modelLoaded, fitted, users, predictions,
                   alerts, issued, now>>
    /\ UNCHANGED <<startVars, predVars, featVars, trainVars>>

\* GET /health (main has no such route)
HealthCheck ==
    /\ Serving
    /\ variant # "basic"
    /\ resp' = Response("health", 200, "", << >>, TRUE, FALSE,
                        [ status |-> "healthy", model_loaded |-> modelLoaded ])
    /\ served' = served + 1
    /\ UNCHANGED <<variant, atStart, artifact, dataFile, phase, modelLoaded, fitted, users, predictions,
                   alerts, issued, now>>
    /\ UNCHANGED <<startVars, predVars, featVars, trainVars>>

(***************************************************************************)
(* Spec: one run of one variant, from the import of its module             *)
(***************************************************************************)
AlertCrops == {"Rice"}

\* target prices of the alerts of the model, in cents
AlertTargets == {250000}

\* <<limit, offset>> of the history requests: the defaults of the handler,
\* the second row alone, and a negative limit
DefaultPage == <<10, 0>>

HistoryPages == { DefaultPage, <<1, 1>>, <<-1, 0>> }

\* request bodies of POST /predict/batch: n requests, alternately the sample
\* request and the request with an area, and the same with a last item whose
\* month is out of range
BatchBody(n) == [ i \in 1..n |-> IF i % 2 = 1 THEN AreaInput ELSE BaseInput ]

BatchBodies ==
    { BatchBody(n) : n \in 0..MaxBatch }
      \cup { [ BatchBody(n) EXCEPT ![n] = BadMonthInput ] : n \in 1..MaxBatch }

\* no file
NoFile == [ kind |-> "absent" ]

\* self.best_model = None
NoBestModel == [ kind |-> "none", members |-> << >>, fit |-> 0 ]

\* no call of train() is under way
TrainIdle ==
    /\ tPc = "idle"
    /\ model_performance = << >>
    /\ models = << >>
    /\ best_model = NoBestModel
    /\ best_model_name = ""
    /\ ensemble_model = NoBestModel
    /\ modelFile = NoFile
    /\ metadataFile = NoFile
    /\ tPredict = NoResult

FeatIdle ==
    /\ fData = << >>
    /\ fRow = 0
    /\ fMode = "request"
    /\ fTrain = NoResult
    /\ fPred = NoResult
    /\ fQuick = NoResult
    /\ fSimple = NoResult
    /\ fLog = << >>

\* a predictions row an earlier run of main_perfect left, `ago` minutes before
\* this run started
StoredPrediction(id, uid, ago, inp, raw) ==
    [ id |-> id, user_id |-> uid, timestamp |-> 0 - ago, input_data |-> inp,
      prediction_result |-> WithInsights(PerfectPredictResult(raw), inp),
      model_used |-> "perfect_ai" ]

\* the tables of crop_prediction_perfect.db after two users registered, made
\* three predictions and one of them set an alert
StoredAccounts ==
    << [ id |-> 1, username |-> "alice", email |-> "a@farm.in",
         hashed_password |-> GetPasswordHash(Credentials["alice"]) ],
       [ id |-> 2, username |-> "bob", email |-> "b@farm.in",
         hashed_password |-> GetPasswordHash(Credentials["bob"]) ] >>

StoredPredictions ==
    << StoredPrediction(1, 1, 60, BaseInput, 20004900),
       StoredPrediction(2, 2, 40, AreaInput, 31000000),
       StoredPrediction(3, 1, 20, AreaInput, 31000000) >>

StoredAlerts ==
    << [ id |-> 1, user_id |-> 2, crop |-> "Onion", target_price |-> 180000,
         is_active |-> TRUE, created_at |-> 0 - 40, triggered |-> FALSE ] >>

PredIdle ==
    /\ pPath = "perfect"
    /\ pRaw = 0
    /\ pOut = NoResult
    /\ encoders = NoResult
    /\ pIn = NoResult

ApiIdle ==
    /\ variant = "perfect"
    /\ artifact = "ok"
    /\ atStart = "ok"
    /\ dataFile = "ok"
    /\ phase = "start"
    /\ modelLoaded = FALSE
    /\ fitted = NoModel
    /\ users = << >>
    /\ predictions = << >>
    /\ alerts = << >>
    /\ issued = {}
    /\ now = 0
    /\ served = 0
    /\ resp = NoResp

Init ==
    /\ StartIdle
    /\ variant \in Variants
    /\ artifact \in ArtifactStates
    /\ atStart = artifact
    /\ dataFile \in (IF variant = "perfect" THEN DataStates ELSE {"ok"})
    /\ phase = "start"
    /\ modelLoaded = FALSE
    /\ fitted = NoModel
    /\ users \in (IF variant \in AuthVariants THEN StoredUsers ELSE { << >> })
    /\ predictions = << >>
    /\ alerts = << >>
    /\ issued = {}
    /\ now = 0
    /\ served = 0
    /\ resp = NoResp
    /\ PredIdle
    /\ FeatIdle
    /\ TrainIdle

Next ==
    \/ Startup
    \/ Tick
    \/ \E u \in Usernames, e \in Emails : RegisterUser(u, e, Credentials[u])
    \/ \E u \in Usernames, p \in Passwords : LoginForAccessToken(u, p)
    \/ \E tok \in PresentableTokens, inp \in ApiInputs : PredictPerfect(tok, inp)
    \/ \E tok \in PresentableTokens, inp \in ApiInputs : PredictEnhanced(tok, inp)
    \/ \E inp \in ApiInputs : PredictSimple(inp)
    \/ \E inp \in ApiInputs : PredictBasic(inp)
    \/ \E tok \in PresentableTokens, items \in BatchBodies, ins \in BOOLEAN :
          PredictBatch(tok, items, ins)
    \/ \E tok \in PresentableTokens : GetPredictionHistory(tok, DefaultPage[1], DefaultPage[2])
    \/ \E tok \in PresentableTokens, c \in AlertCrops, t \in AlertTargets :
          CreatePriceAlert(tok, c, t)
    \/ \E tok \in PresentableTokens, a \in BOOLEAN : GetPriceAlerts(tok, a)
    \/ \E tok \in PresentableTokens : GetAnalyticsDashboard(tok)
    \/ HealthCheck

Spec == Init /\ [][Next]_vars

(***************************************************************************)
(* SpecStore: main_perfect serving with a loaded model over a database     *)
(* that earlier runs filled, and two sessions already open.  The requests  *)
(* are those that read or write the predictions and price_alerts tables.   *)
(***************************************************************************)
StoreInit ==
    /\ StartIdle
    /\ variant = "perfect"
    /\ artifact = "ok"
    /\ atStart = "ok"
    /\ dataFile = "ok"
    /\ phase = "serving"
    /\ modelLoaded = TRUE
    /\ fitted \in FittedModels
    /\ users = StoredAccounts
    /\ predictions = StoredPredictions
    /\ alerts = StoredAlerts
    /\ issued = { CreateAccessToken(u, 0) : u \in Usernames }
    /\ now = 0
    /\ served = 0
    /\ resp = NoResp
    /\ PredIdle
    /\ FeatIdle
    /\ TrainIdle

StoreNext ==
    \/ Tick
    \/ \E u \in Usernames : LoginForAccessToken(u, Credentials[u])
    \/ \E tok \in issued, inp \in {BaseInput, AreaInput} : PredictPerfect(tok, inp)
    \/ \E tok \in issued : PredictBatch(tok, BatchBody(MaxBatch), FALSE)
    \/ \E tok \in issued, page \in HistoryPages :
          GetPredictionHistory(tok, page[1], page[2])
    \/ \E tok \in issued, c \in AlertCrops, t \in AlertTargets :
          CreatePriceAlert(tok, c, t)
    \/ \E tok \in issued, a \in BOOLEAN : GetPriceAlerts(tok, a)

SpecStore == StoreInit /\ [][StoreNext]_vars

(***************************************************************************)
(* SpecPredict: the result formatting as a function of the model output.   *)
(* The fitted model is opaque (a random forest, or a voting ensemble that  *)
(* may hold ridge / lasso / elastic-net / support-vector members), so its  *)
(* output for an accepted input is any value of the range.                 *)
(***************************************************************************)
PredictInit ==
    /\ StartIdle
    /\ pPath \in PredictionPaths
    /\ pRaw \in (-MaxRaw)..MaxRaw
    /\ pOut = NoResult
    /\ encoders = NoResult
    /\ pIn = NoResult
    /\ ApiIdle
    /\ FeatIdle
    /\ TrainIdle

PredictCall ==
    /\ pOut = NoResult
    /\ pOut' = PathResult(pPath, pRaw)
    /\ UNCHANGED <<pPath, pRaw, encoders, pIn>>
    /\ UNCHANGED <<startVars, apiVars, featVars, trainVars>>

PredictNext == PredictCall

SpecPredict == PredictInit /\ [][PredictNext]_vars

(***************************************************************************)
(* SpecFeat: the feature columns of one dataset row, derived at training    *)
(* time (load_and_prepare_data, over the whole file) and at prediction time *)
(* (_apply_feature_engineering, over the one row).  Column values are       *)
(* tagged: a rational n/d, the square root of a rational, a boolean, a      *)
(* string, or NaN.                                                          *)
(***************************************************************************)

\* the longest dataset considered
MaxRows == 2

Num(n, d) == [ kind |-> "num", n |-> n, d |-> d, s |-> "" ]

Sqrt(n, d) == [ kind |-> "sqrt", n |-> n, d |-> d, s |-> "" ]

Bool(b) == [ kind |-> "bool", n |-> IF b THEN 1 ELSE 0, d |-> 1, s |-> "" ]

Str(str) == [ kind |-> "str", n |-> 0, d |-> 1, s |-> str ]

NaN == [ kind |-> "nan", n |-> 0, d |-> 1, s |-> "" ]

\* datetime: .dt.dayofyear, .dt.quarter, .dt.weekday (Monday = 0)
IsLeap(y) == (y % 4 = 0 /\ y % 100 # 0) \/ y % 400 = 0

DaysInMonth(y, m) ==
    IF m = 2 THEN (IF IsLeap(y) THEN 29 ELSE 28)
    ELSE IF m \in {4, 6, 9, 11} THEN 30 ELSE 31

RECURSIVE DaysBeforeMonth(_, _)
DaysBeforeMonth(y, m) ==
    IF m = 1 THEN 0 ELSE DaysBeforeMonth(y, m - 1) + DaysInMonth(y, m - 1)

DayOfYear(date) == DaysBeforeMonth(date.year, date.month) + date.day

Quarter(date) == ((date.month - 1) \div 3) + 1

\* days from 2020-01-01, a Wednesday, to 1 January of year y (y >= 2020)
RECURSIVE DaysBeforeYear(_)
DaysBeforeYear(y) ==
    IF y <= 2020 THEN 0
    ELSE DaysBeforeYear(y - 1) + (IF IsLeap(y - 1) THEN 366 ELSE 365)

Weekday(date) == (2 + DaysBeforeYear(date.year) + DayOfYear(date) - 1) % 7

\* df['month'].map({...}): NaN for a key the mapping lacks
SeasonOf(month) ==
    IF month \in {12, 1, 2} THEN Str("Winter")
    ELSE IF month \in {3, 4, 5} THEN Str("Spring")
    ELSE IF month \in {6, 7, 8} THEN Str("Summer")
    ELSE IF month \in {9, 10, 11} THEN Str("Autumn")
    ELSE NaN

\* _apply_feature_engineering: df['month'].map({...})
PredictionSeason(month) ==
    IF month \in {12, 1, 2} THEN Str("Winter")
    ELSE IF month \in {3, 4, 5} THEN Str("Spring")
    ELSE IF month \in {6, 7, 8} THEN Str("Summer")
    ELSE IF month \in {9, 10, 11} THEN Str("Autumn")
    ELSE NaN

\* A variant of QuickSeason that follows the calendar quarters.
QuickSeasonByQuarter(month) ==
    IF month \in {1, 2, 3} THEN Str("Winter")
    ELSE IF month \in {4, 5, 6} THEN Str("Spring")
    ELSE IF month \in {7, 8, 9} THEN Str("Summer")
    ELSE IF month \in {10, 11, 12} THEN Str("Autumn")
    ELSE NaN

\* train_quick_model: df_sample['month'].map({...}), and the same mapping in
\* its predict_price
QuickSeason(month) ==
    IF month \in {12, 1, 2} THEN Str("Winter")
    ELSE IF month \in {3, 4, 5} THEN Str("Spring")
    ELSE IF month \in {6, 7, 8} THEN Str("Summer")
    ELSE IF month \in {9, 10, 11} THEN Str("Autumn")
    ELSE NaN

\* main_simple, predict_price: df_input['month'].map({...})
SimpleSeason(month) ==
    IF month \in {12, 1, 2} THEN Str("Winter")
    ELSE IF month \in {3, 4, 5} THEN Str("Spring")
    ELSE IF month \in {6, 7, 8} THEN Str("Summer")
    ELSE IF month \in {9, 10, 11} THEN Str("Autumn")
    ELSE NaN

\* np.where((temperature > 35) | (rainfall < 10), 1, 0)
WeatherStress(temperature, rainfall) ==
    IF temperature > 35 \/ rainfall < 10 THEN 1 ELSE 0

\* A variant of PredictionWeatherStress whose thresholds are inclusive.
PredictionWeatherStressInclusive(temperature, rainfall) ==
    IF temperature >= 35 \/ rainfall <= 10 THEN 1 ELSE 0

\* _apply_feature_engineering: np.where((temperature > 35) | (rainfall < 10), 1, 0)
PredictionWeatherStress(temperature, rainfall) ==
    IF temperature > 35 \/ rainfall < 10 THEN 1 ELSE 0

\* df['crop'].map({...})
CropCategory(crop) ==
    IF crop \in {"Rice", "Wheat", "Maize", "Jowar", "Bajra", "Ragi"} THEN Str("Cereal")
    ELSE IF crop = "Cotton" THEN Str("Fiber")
    ELSE IF crop = "Sugarcane" THEN Str("Sugar")
    ELSE IF crop \in {"Soybean", "Groundnut"} THEN Str("Oilseed")
    ELSE IF crop \in {"Potato", "Onion"} THEN Str("Vegetable")
    ELSE IF crop = "Turmeric" THEN Str("Spice")
    ELSE IF crop = "Arhar" THEN Str("Pulse")
    ELSE NaN

\* df['state'].map(state_economic_factors), in hundredths
StateEconomicFactor(state) ==
    CASE state = "Punjab"         -> Num(120, 100)
      [] state = "Maharashtra"    -> Num(110, 100)
      [] state = "Karnataka"      -> Num(100, 100)
      [] state = "Uttar Pradesh"  -> Num(90, 100)
      [] state = "Madhya Pradesh" -> Num(95, 100)
      [] state = "Andhra Pradesh" -> Num(105, 100)
      [] state = "West Bengal"    -> Num(90, 100)
      [] state = "Gujarat"        -> Num(110, 100)
      [] state = "Rajasthan"      -> Num(85, 100)
      [] state = "Haryana"        -> Num(115, 100)
      [] OTHER                    -> NaN

\* df['soil_type'].map(soil_productivity), in tenths
SoilProductivity(soil_type) ==
    CASE soil_type = "Alluvial" -> Num(12, 10)
      [] soil_type = "Black"    -> Num(11, 10)
      [] soil_type = "Red"      -> Num(10, 10)
      [] soil_type = "Laterite" -> Num(9, 10)
      [] soil_type = "Arid"     -> Num(8, 10)
      [] soil_type = "Mountain" -> Num(7, 10)
      [] OTHER                  -> NaN

\* Series.fillna(value)
FillNa(v, value) == IF v.kind = "nan" THEN value ELSE v

\* the sum of the prices (squared when sq) of the rows with the given indices
RECURSIVE SumPrice(_, _, _)
SumPrice(data, idxs, sq) ==
    IF idxs = {} THEN 0
    ELSE LET i == CHOOSE i \in idxs : TRUE
         IN  (IF sq THEN data[i].price * data[i].price ELSE data[i].price)
             + SumPrice(data, idxs \ {i}, sq)

\* groupby(['crop', 'state']) and groupby('crop'): the rows of row k's group
CropStateGroup(data, k) ==
    { i \in 1..Len(data) : data[i].crop = data[k].crop /\ data[i].state = data[k].state }

CropGroup(data, k) == { i \in 1..Len(data) : data[i].crop = data[k].crop }

\* transform('std'): the sample standard deviation (ddof = 1), NaN for one row
GroupStd(data, idxs) ==
    LET n == Cardinality(idxs)
    IN  IF n < 2 THEN NaN
        ELSE Sqrt(n * SumPrice(data, idxs, TRUE)
                    - SumPrice(data, idxs, FALSE) * SumPrice(data, idxs, FALSE),
                  n * (n - 1))

\* transform(lambda x: x.pct_change().fillna(0)): the change from the group's
\* previous row, 0 for its first row
GroupPctChange(data, idxs, k) ==
    LET before == { i \in idxs : i < k }
    IN  IF before = {} THEN Num(0, 1)
        ELSE LET p == CHOOSE i \in before : \A j \in before : j <= i
             IN  Num(data[k].price - data[p].price, data[p].price)

\* load_and_prepare_data: the feature columns of row k of the file
TrainingFeatures(data, k) ==
    LET row == data[k]
    IN  [ day_of_year               |-> Num(DayOfYear(row.date), 1),
          quarter                   |-> Num(Quarter(row.date), 1),
          is_weekend                |-> Bool(Weekday(row.date) >= 5),
          season                    |-> SeasonOf(row.month),
          temp_rainfall_ratio       |-> Num(row.temperature, row.rainfall + 1),
          humidity_temp_interaction |-> Num(row.humidity * row.temperature, 1),
          weather_stress            |-> Num(WeatherStress(row.temperature, row.rainfall), 1),
          price_volatility          |-> GroupStd(data, CropStateGroup(data, k)),
          price_trend               |-> GroupPctChange(data, CropStateGroup(data, k), k),
          prev_year_price_ratio     |-> Num(row.price, row.prev_year_price + 1),
          crop_category             |-> CropCategory(row.crop),
          state_economic_factor     |-> StateEconomicFactor(row.state),
          soil_productivity         |-> SoilProductivity(row.soil_type),
          crop_demand_score         |-> Num(SumPrice(data, CropGroup(data, k), FALSE),
                                            Cardinality(CropGroup(data, k))),
          state_crop_specialization |-> Num(Cardinality(CropStateGroup(data, k)), 1) ]

\* A variant of ApplyFeatureEngineering whose crop_demand_score grows with the
\* calls made before.
ApplyFeatureEngineeringCounting(row, has_date, has_price) ==
    [ day_of_year               |-> IF has_date THEN Num(DayOfYear(row.date), 1)
                                    ELSE Num(row.month * 30, 1),
      quarter                   |-> IF has_date THEN Num(Quarter(row.date), 1)
                                    ELSE Num(((row.month - 1) \div 3) + 1, 1),
      is_weekend                |-> IF has_date THEN Bool(Weekday(row.date) >= 5)
                                    ELSE Bool(FALSE),
      season                    |-> PredictionSeason(row.month),
      temp_rainfall_ratio       |-> Num(row.temperature, row.rainfall + 1),
      humidity_temp_interaction |-> Num(row.humidity * row.temperature, 1),
      weather_stress            |-> Num(PredictionWeatherStress(row.temperature, row.rainfall), 1),
      price_volatility          |-> Num(100, 1),
      price_trend               |-> Num(0, 1),
      prev_year_price_ratio     |-> IF has_price
                                    THEN Num(row.price, row.prev_year_price + 1)
                                    ELSE Num(1, 1),
      crop_category             |-> FillNa(CropCategory(row.crop), Str("Other")),
      state_economic_factor     |-> FillNa(StateEconomicFactor(row.state), Num(1, 1)),
      soil_productivity         |-> FillNa(SoilProductivity(row.soil_type), Num(1, 1)),
      crop_demand_score         |-> Num(2000 + Len(fLog), 1),
      state_crop_specialization |-> Num(100, 1) ]

\* _apply_feature_engineering on a one-row frame; has_date and has_price say
\* whether the frame has a 'date' and a 'price' column
ApplyFeatureEngineering(row, has_date, has_price) ==
    [ day_of_year               |-> IF has_date THEN Num(DayOfYear(row.date), 1)
                                    ELSE Num(row.month * 30, 1),
      quarter                   |-> IF has_date THEN Num(Quarter(row.date), 1)
                                    ELSE Num(((row.month - 1) \div 3) + 1, 1),
      is_weekend                |-> IF has_date THEN Bool(Weekday(row.date) >= 5)
                                    ELSE Bool(FALSE),
      season                    |-> PredictionSeason(row.month),
      temp_rainfall_ratio       |-> Num(row.temperature, row.rainfall + 1),
      humidity_temp_interaction |-> Num(row.humidity * row.temperature, 1),
      weather_stress            |-> Num(PredictionWeatherStress(row.temperature, row.rainfall), 1),
      price_volatility          |-> Num(100, 1),
      price_trend               |-> Num(0, 1),
      prev_year_price_ratio     |-> IF has_price
                                    THEN Num(row.price, row.prev_year_price + 1)
                                    ELSE Num(1, 1),
      crop_category             |-> FillNa(CropCategory(row.crop), Str("Other")),
      state_economic_factor     |-> FillNa(StateEconomicFactor(row.state), Num(1, 1)),
      soil_productivity         |-> FillNa(SoilProductivity(row.soil_type), Num(1, 1)),
      crop_demand_score         |-> Num(2000, 1),
      state_crop_specialization |-> Num(100, 1) ]

\* the feature columns the derivations add
FeatureColumns ==
    { "day_of_year", "quarter", "is_weekend", "season", "temp_rainfall_ratio",
      "humidity_temp_interaction", "weather_stress", "price_volatility",
      "price_trend", "prev_year_price_ratio", "crop_category",
      "state_economic_factor", "soil_productivity", "crop_demand_score",
      "state_crop_specialization" }

\* rows of the dataset (prepare_data.py writes month = date.month), among them
\* a crop, a state and a soil type the mappings do not know
Observation(y, m, d, crop, state, soil, temp, rain, hum, prev, price) ==
    [ date |-> [ year |-> y, month |-> m, day |-> d ], month |-> m,
      crop |-> crop, state |-> state, soil_type |-> soil, temperature |-> temp,
      rainfall |-> rain, humidity |-> hum, prev_year_price |-> prev, price |-> price ]

Observations ==
    { Observation(2023, 10, 16, "Rice", "Punjab", "Alluvial", 28, 120, 65, 2000, 2100),
      Observation(2023, 10, 17, "Rice", "Punjab", "Alluvial", 27, 110, 66, 2000, 2300),
      Observation(2024, 12, 30, "Rice", "Haryana", "Red", 18, 20, 50, 2099, 2100),
      Observation(2024, 3, 2, "Onion", "Maharashtra", "Black", 38, 5, 40, 1500, 1200),
      Observation(2024, 3, 3, "Quinoa", "Kerala", "Peaty", 30, 9, 70, 1000, 900) }

Datasets == UNION { [ 1..n -> Observations ] : n \in 1..MaxRows }

FeatInit ==
    /\ StartIdle
    /\ fData \in Datasets
    /\ fRow \in 1..MaxRows
    /\ fRow <= Len(fData)
    /\ fMode \in {"request", "frame"}
    /\ fTrain = NoResult
    /\ fPred = NoResult
    /\ fQuick = NoResult
    /\ fSimple = NoResult
    /\ fLog = << >>
    /\ PredIdle
    /\ ApiIdle
    /\ TrainIdle

\* load_and_prepare_data(file_path)
LoadAndPrepareData ==
    /\ fTrain = NoResult
    /\ fTrain' = TrainingFeatures(fData, fRow)
    /\ UNCHANGED <<fData, fRow, fMode, fPred, fQuick, fSimple, fLog>>
    /\ UNCHANGED <<startVars, predVars, apiVars, trainVars>>

\* predict(input_data) up to the call of the model
ApplyFeatures ==
    /\ fPred = NoResult
    /\ fPred' = ApplyFeatureEngineering(fData[fRow], fMode = "frame", fMode = "frame")
    /\ UNCHANGED <<fData, fRow, fMode, fTrain, fQuick, fSimple, fLog>>
    /\ UNCHANGED <<startVars, predVars, apiVars, trainVars>>

FeatNext == LoadAndPrepareData \/ ApplyFeatures

SpecFeat == FeatInit /\ [][FeatNext]_vars

(***************************************************************************)
(* SpecDerive: the derivations of the perfect model (training and          *)
(* prediction), of the quick model and of the simple API on one row, over  *)
(* every month and over temperatures and rainfalls around the              *)
(* weather_stress thresholds.                                              *)
(***************************************************************************)

\* temperatures lie within StressMargin of 35, rainfalls within StressMargin of 10
StressMargin == 1

DeriveRows ==
    { Observation(2024, m, 15, "Rice", "Punjab", "Alluvial", t, r, 65, 2000, 2100) :
        m \in 1..12, t \in (35 - StressMargin)..(35 + StressMargin),
        r \in (10 - StressMargin)..(10 + StressMargin) }

\* train_quick_model.predict_price up to the call of the model
QuickFeatures(row) ==
    [ temp_rainfall_ratio       |-> Num(row.temperature, row.rainfall + 1),
      humidity_temp_interaction |-> Num(row.humidity * row.temperature, 1),
      season                    |-> QuickSeason(row.month) ]

\* main_simple.predict_price up to the call of the model
SimpleFeatures(row) ==
    [ temp_rainfall_ratio       |-> Num(row.temperature, row.rainfall + 1),
      humidity_temp_interaction |-> Num(row.humidity * row.temperature, 1),
      season                    |-> SimpleSeason(row.month) ]

DeriveInit ==
    /\ StartIdle
    /\ fData \in { << row >> : row \in DeriveRows }
    /\ fRow = 1
    /\ fMode \in {"request", "frame"}
    /\ fTrain = NoResult
    /\ fPred = NoResult
    /\ fQuick = NoResult
    /\ fSimple = NoResult
    /\ fLog = << >>
    /\ PredIdle
    /\ ApiIdle
    /\ TrainIdle

QuickFeatureEngineering ==
    /\ fQuick = NoResult
    /\ fQuick' = QuickFeatures(fData[fRow])
    /\ UNCHANGED <<fData, fRow, fMode, fTrain, fPred, fSimple, fLog>>
    /\ UNCHANGED <<startVars, predVars, apiVars, trainVars>>

SimpleFeatureEngineering ==
    /\ fSimple = NoResult
    /\ fSimple' = SimpleFeatures(fData[fRow])
    /\ UNCHANGED <<fData, fRow, fMode, fTrain, fPred, fQuick, fLog>>
    /\ UNCHANGED <<startVars, predVars, apiVars, trainVars>>

DeriveNext ==
    \/ LoadAndPrepareData
    \/ ApplyFeatures
    \/ QuickFeatureEngineering
    \/ SimpleFeatureEngineering

SpecDerive == DeriveInit /\ [][DeriveNext]_vars

(***************************************************************************)
(* SpecCalls: successive calls of _apply_feature_engineering on one        *)
(* predictor, each with any input.                                         *)
(***************************************************************************)

\* calls of one run
MaxCalls == 3

\* the mapping a call is given: the fields of an API request, or the whole
\* row with its date and price
InputMapping(row, mode) ==
    IF mode = "frame" THEN row
    ELSE [ crop |-> row.crop, state |-> row.state, soil_type |-> row.soil_type,
           month |-> row.month, temperature |-> row.temperature,
           rainfall |-> row.rainfall, humidity |-> row.humidity,
           prev_year_price |-> row.prev_year_price ]

CallsInit ==
    /\ StartIdle
    /\ FeatIdle
    /\ PredIdle
    /\ ApiIdle
    /\ TrainIdle

\* predict(input_data) up to the call of the model, on the same predictor as
\* the calls before
CallApplyFeatures ==
    /\ Len(fLog) < MaxCalls
    /\ \E row \in Observations, mode \in {"request", "frame"} :
         fLog' = Append(fLog,
                        [ input |-> InputMapping(row, mode),
                          out   |-> ApplyFeatureEngineering(row, mode = "frame",
                                                            mode = "frame") ])
    /\ UNCHANGED <<fData, fRow, fMode, fTrain, fPred, fQuick, fSimple>>
    /\ UNCHANGED <<startVars, predVars, apiVars, trainVars>>

CallsNext == CallApplyFeatures

SpecCalls == CallsInit /\ [][CallsNext]_vars

(***************************************************************************)
(* SpecEncode: the encoding of crop, state and soil_type on each           *)
(* prediction path.  The encoders learn their categories at fit; a request *)
(* may carry values the fit never saw.                                     *)
(***************************************************************************)
\* train_model.generate_sample_data: the crops and states its rows draw from
\* (the generator is seeded; each of them occurs among the 1000 rows)
BasicCrops ==
    {"Rice", "Wheat", "Maize", "Cotton", "Sugarcane", "Soybean", "Potato", "Onion"}

BasicStates ==
    {"Andhra Pradesh", "Punjab", "Maharashtra", "Karnataka", "Uttar Pradesh",
     "Madhya Pradesh"}

\* the string order LabelEncoder sorts classes_ by, over the names of the model
CategoryOrder ==
    << "Alluvial", "Andhra Pradesh", "Black", "Cotton", "Haryana", "Karnataka",
       "Kerala", "Madhya Pradesh", "Maharashtra", "Maize", "Onion", "Peaty",
       "Potato", "Punjab", "Quinoa", "Red", "Rice", "Soybean", "Sugarcane",
       "Uttar Pradesh", "Wheat" >>

Rank(name) == CHOOSE i \in 1..Len(CategoryOrder) : CategoryOrder[i] = name

\* fit of the categorical encoder on the rows of a frame: the distinct values
\* of each column
FittedCategories(data) ==
    [ crop      |-> { data[i].crop : i \in 1..Len(data) },
      state     |-> { data[i].state : i \in 1..Len(data) },
      soil_type |-> { data[i].soil_type : i \in 1..Len(data) } ]

\* train_model.train_and_save_model: one LabelEncoder per column of
\* ['Crop', 'State'], saved as the encoders mapping
BasicEncoders == [ crop |-> BasicCrops, state |-> BasicStates ]

EncodedColumns(path) ==
    IF path = "basic" THEN {"crop", "state"} ELSE {"crop", "state", "soil_type"}

\* OneHotEncoder(handle_unknown='ignore').transform of one value: one column
\* per learned category; a value that is none of them gives the all-zero block
OneHot(categories, value) ==
    [ c \in categories |-> IF c = value THEN 1 ELSE 0 ]

\* LabelEncoder.transform of one value: its index in the sorted classes_.
\* A value that is not in classes_ raises ValueError ("y contains previously
\* unseen labels").
LabelSeen(classes, value) == value \in classes

Label(classes, value) ==
    Cardinality({ c \in classes : Rank(c) < Rank(value) })

Unseen(enc, path, row) ==
    { col \in EncodedColumns(path) : row[col] \notin enc[col] }

\* One prediction call as far as the categorical columns go.  perfect, quick
\* and simple hand the frame to a pipeline whose categorical transformer is
\* OneHotEncoder(handle_unknown='ignore'); main.predict_price replaces the
\* Crop and State columns by encoders[col].transform(df[col]) inside its
\* try block, whose except clause answers 400 with the exception's text.
EncodedPrediction(path, enc, row, raw) ==
    IF path = "basic"
    THEN IF \A col \in EncodedColumns(path) : LabelSeen(enc[col], row[col])
         THEN [ status |-> 200, detail |-> "",
                encoded |-> [ col \in EncodedColumns(path) |-> Label(enc[col], row[col]) ],
                result |-> PathResult(path, raw) ]
         ELSE [ status |-> 400, detail |-> "ValueError", encoded |-> NoResult,
                result |-> NoResult ]
    ELSE [ status |-> 200, detail |-> "",
           encoded |-> [ col \in EncodedColumns(path) |-> OneHot(enc[col], row[col]) ],
           result |-> PathResult(path, raw) ]

\* outputs of the fitted regressor the encoding runs are made with
EncodeRaws == {0, MaxRaw}

EncodeInit ==
    /\ StartIdle
    /\ pPath \in PredictionPaths
    /\ pRaw \in EncodeRaws
    /\ pOut = NoResult
    /\ encoders = NoResult
    /\ pIn = NoResult
    /\ ApiIdle
    /\ FeatIdle
    /\ TrainIdle

\* training: the encoders are fitted on the training frame
FitEncoders ==
    /\ encoders = NoResult
    /\ \E data \in Datasets :
         encoders' = IF pPath = "basic" THEN BasicEncoders ELSE FittedCategories(data)
    /\ UNCHANGED <<pPath, pRaw, pOut, pIn>>
    /\ UNCHANGED <<startVars, apiVars, featVars, trainVars>>

\* one prediction request with the fitted encoders
EncodePredict ==
    /\ encoders # NoResult
    /\ pOut = NoResult
    /\ \E row \in Observations :
         /\ pIn' = InputMapping(row, "request")
         /\ pOut' = EncodedPrediction(pPath, encoders, row, pRaw)
    /\ UNCHANGED <<pPath, pRaw, encoders>>
    /\ UNCHANGED <<startVars, apiVars, featVars, trainVars>>

EncodeNext ==
    \/ FitEncoders
    \/ EncodePredict

SpecEncode == EncodeInit /\ [][EncodeNext]_vars

(***************************************************************************)
(* SpecStart: start_ai_service.main, one run of the startup script.  The   *)
(* data file and the model file are the ones the service reads (dataFile,  *)
(* artifact).                                                              *)
(***************************************************************************)
\* check_dependencies: required_packages
RequiredPackages ==
    { "pandas", "numpy", "scikit-learn", "fastapi", "uvicorn", "joblib", "python-jose",
      "passlib", "python-multipart" }

\* the calls of main, in the order of its text
StartSteps == << "check_dependencies", "check_data_file", "train_model", "start_service" >>

StepIndex(step) == CHOOSE i \in 1..Len(StartSteps) : StartSteps[i] = step

\* A variant of AfterStep that goes on to the next call whatever the step
\* returned.
AfterStepIgnoringResult(step, ret) ==
    IF StepIndex(step) < Len(StartSteps) THEN StartSteps[StepIndex(step) + 1] ELSE "done"

\* main: `if not check_x(): print(...); return`, else the next call; after
\* start_service() main ends
AfterStep(step, ret) ==
    IF ret /\ StepIndex(step) < Len(StartSteps) THEN StartSteps[StepIndex(step) + 1]
    ELSE "done"

StepRecord(step, ret, ran, data, model) ==
    [ step |-> step, ret |-> ret, ran |-> ran, data |-> data, model |-> model ]

StartInit ==
    /\ sPc = "check_dependencies"
    /\ sMissing = {}
    /\ sLog = << >>
    /\ PredIdle
    /\ FeatIdle
    /\ TrainIdle
    /\ variant = "perfect"
    /\ artifact \in ArtifactStates
    /\ atStart = artifact
    /\ dataFile \in DataStates
    /\ phase = "start"
    /\ modelLoaded = FALSE
    /\ fitted = NoModel
    /\ users = << >>
    /\ predictions = << >>
    /\ alerts = << >>
    /\ issued = {}
    /\ now = 0
    /\ served = 0
    /\ resp = NoResp

\* check_dependencies(): the packages whose import raises ImportError are
\* collected; each is then installed with pip, and the first failing
\* installation returns False
CheckDependencies ==
    /\ sPc = "check_dependencies"
    /\ \E missing \in SUBSET RequiredPackages, installed \in BOOLEAN :
         LET ret == (missing = {}) \/ installed
         IN  /\ sMissing' = missing
             /\ sLog' = Append(sLog, StepRecord("check_dependencies", ret, missing # {},
                                                dataFile, artifact))
             /\ sPc' = AfterStep("check_dependencies", ret)
    /\ UNCHANGED <<predVars, featVars, trainVars, apiVars>>

\* check_data_file(): True when data/processed/crop_prices.csv exists;
\* otherwise fetch_and_prepare_data() writes it (True), or raises (False)
CheckDataFile ==
    /\ sPc = "check_data_file"
    /\ \E generated \in BOOLEAN :
         LET ret == dataFile = "ok" \/ generated
         IN  /\ dataFile' = IF ret THEN "ok" ELSE dataFile
             /\ sLog' = Append(sLog, StepRecord("check_data_file", ret, dataFile # "ok",
                                                dataFile, artifact))
             /\ sPc' = AfterStep("check_data_file", ret)
    /\ UNCHANGED <<variant, atStart, artifact, phase, modelLoaded, fitted, users, predictions,
                   alerts, issued, now, served, resp>>
    /\ UNCHANGED <<sMissing, predVars, featVars, trainVars>>

\* train_model(): True when models/perfect_crop_price_model.pkl exists;
\* otherwise PerfectCropPricePredictor().train(data file), which ends with
\* save_models() (True), or raises (False)
TrainModel ==
    /\ sPc = "train_model"
    /\ \E fits \in BOOLEAN :
         LET trained == Train(dataFile) = "trained" /\ fits
             ret     == artifact # "absent" \/ trained
         IN  /\ artifact' = IF artifact = "absent" /\ trained THEN "ok" ELSE artifact
             /\ sLog' = Append(sLog, StepRecord("train_model", ret, artifact = "absent",
                                                dataFile, artifact))
             /\ sPc' = AfterStep("train_model", ret)
    /\ UNCHANGED <<variant, atStart, dataFile, phase, modelLoaded, fitted, users, predictions,
                   alerts, issued, now, served, resp>>
    /\ UNCHANGED <<sMissing, predVars, featVars, trainVars>>

\* start_service(): uvicorn runs app.main_perfect until it is stopped
StartService ==
    /\ sPc = "start_service"
    /\ sLog' = Append(sLog, StepRecord("start_service", TRUE, TRUE, dataFile, artifact))
    /\ sPc' = AfterStep("start_service", TRUE)
    /\ UNCHANGED <<sMissing, predVars, featVars, trainVars, apiVars>>

StartNext ==
    \/ CheckDependencies
    \/ CheckDataFile
    \/ TrainModel
    \/ StartService

SpecStart == StartInit /\ [][StartNext]_vars

(***************************************************************************)
(* SpecTrain: one call of PerfectCropPricePredictor.train(file_path) on a  *)
(* new predictor, step by step, and a predict() call after it.  The fits   *)
(* are opaque: the held-out R2 of each candidate is any value of a grid,   *)
(* and each step before save_models either completes or raises.            *)
(***************************************************************************)

\* the held-out R2 scores lie on the grid 0..MaxScore (only their order is used)
MaxScore == 2

\* the candidates of train_ensemble_models, in definition order
Candidates ==
    << "RandomForest", "GradientBoosting", "ExtraTrees", "Ridge", "Lasso",
       "ElasticNet", "SVR" >>

\* the file train() is given: usable, absent, or not a table with the columns
\* load_and_prepare_data reads
TrainInputs == {"ok", "missing", "malformed"}

\* a fitted Pipeline(preprocessor, feature_selector, model)
FittedPipeline(name) == [ kind |-> "pipeline", members |-> << name >>, fit |-> 1 ]

\* VotingRegressor(estimators).fit(X_train, y_train)
VotingRegressor(names) == [ kind |-> "ensemble", members |-> names, fit |-> 1 ]

\* self.model_performance after the first k candidates were evaluated, sc
\* being the R2 each candidate scores on the held-out rows
Performance(sc, k) == [ i \in 1..k |-> [ name |-> Candidates[i], r2 |-> sc[i] ] ]

\* what an earlier training left in models/
EarlierModelFile ==
    [ kind |-> "ensemble", members |-> << "Ridge", "Lasso", "SVR" >>, fit |-> 0 ]

EarlierMetadataFile ==
    [ model_performance |-> Performance([ i \in 1..Len(Candidates) |-> 0 ], Len(Candidates)),
      training_timestamp |-> 0, best_model |-> "ensemble" ]

\* A variant of BestModelName that keeps the last of the candidates with the
\* highest score.
BestModelNameLastMax(perf) ==
    perf[CHOOSE i \in 1..Len(perf) :
           \A j \in 1..Len(perf) :
               perf[i].r2 > perf[j].r2 \/ (perf[i].r2 = perf[j].r2 /\ i >= j)].name

\* max(self.model_performance.keys(), key=lambda x: ...['r2']): the first of
\* the keys with the highest score
BestModelName(perf) ==
    perf[CHOOSE i \in 1..Len(perf) :
           \A j \in 1..Len(perf) :
               perf[i].r2 > perf[j].r2 \/ (perf[i].r2 = perf[j].r2 /\ i <= j)].name

\* sorted(self.model_performance.items(), key=lambda x: x[1]['r2'], reverse=True):
\* entry i comes after the entries with a higher score and the earlier entries
\* with the same score (the sort is stable)
SortedByR2(perf) ==
    LET before(i) == { j \in 1..Len(perf) :
                         perf[j].r2 > perf[i].r2 \/ (perf[j].r2 = perf[i].r2 /\ j < i) }
    IN  [ k \in 1..Len(perf) |->
            perf[CHOOSE i \in 1..Len(perf) : Cardinality(before(i)) = k - 1] ]

\* [:3] of the sorted entries, as the estimator names
TopModels(perf) ==
    LET top == SubSeq(SortedByR2(perf), 1, IF Len(perf) > 3 THEN 3 ELSE Len(perf))
    IN  [ k \in 1..Len(top) |-> top[k].name ]

\* A variant of FinalBestModel that keeps the single best pipeline.
FinalBestModelKeepsSingle(single, ensemble) == single

\* train(): self.best_model = ensemble_model
FinalBestModel(single, ensemble) == ensemble

\* A variant of Predict without the guard: the call on None raises AttributeError.
PredictUnguarded(bm) ==
    IF bm = NoBestModel
    THEN [ raised |-> "AttributeError", model |-> NoBestModel ]
    ELSE [ raised |-> "", model |-> bm ]

\* predict(): ValueError when self.best_model is None, else the prediction of
\* self.best_model
Predict(bm) ==
    IF bm = NoBestModel
    THEN [ raised |-> "Model not trained yet. Call train() first.", model |-> NoBestModel ]
    ELSE [ raised |-> "", model |-> bm ]

TrainInit ==
    /\ StartIdle
    /\ variant = "perfect"
    /\ artifact \in {"ok", "absent"}
    /\ atStart = artifact
    /\ dataFile \in TrainInputs
    /\ phase = "start"
    /\ modelLoaded = FALSE
    /\ fitted = NoModel
    /\ users = << >>
    /\ predictions = << >>
    /\ alerts = << >>
    /\ issued = {}
    /\ now = 0
    /\ served = 0
    /\ resp = NoResp
    /\ PredIdle
    /\ FeatIdle
    /\ tPc = "start"
    /\ model_performance = << >>
    /\ models = << >>
    /\ best_model = NoBestModel
    /\ best_model_name = ""
    /\ ensemble_model = NoBestModel
    /\ modelFile = (IF artifact = "ok" THEN EarlierModelFile ELSE NoFile)
    /\ metadataFile = (IF artifact = "ok" THEN EarlierMetadataFile ELSE NoFile)
    /\ tPredict = NoResult

\* train(): df = self.load_and_prepare_data(file_path); pd.read_csv raises on a
\* missing file, the column accesses on a malformed one
TrainLoadAndPrepare ==
    /\ tPc = "start"
    /\ tPc' = (IF dataFile = "ok" THEN "loaded" ELSE "raised")
    /\ UNCHANGED <<model_performance, models, best_model, best_model_name, ensemble_model,
                   modelFile, metadataFile, tPredict>>
    /\ UNCHANGED <<startVars, predVars, featVars, apiVars>>

\* train(): prepare_features_and_target, create_preprocessing_pipeline and the
\* stratified train_test_split, which raises when a crop has a single row
TrainSplit ==
    /\ tPc = "loaded"
    /\ \E raises \in BOOLEAN : tPc' = (IF raises THEN "raised" ELSE "split")
    /\ UNCHANGED <<model_performance, models, best_model, best_model_name, ensemble_model,
                   modelFile, metadataFile, tPredict>>
    /\ UNCHANGED <<startVars, predVars, featVars, apiVars>>

\* train_ensemble_models: each candidate is fitted, scored and stored in turn;
\* then the best is selected.  `at` is the candidate whose fit raises, 0 for none.
TrainEnsembleModels ==
    /\ tPc = "split"
    /\ \E sc \in [ 1..Len(Candidates) -> 0..MaxScore ], at \in 0..Len(Candidates) :
         LET done == IF at = 0 THEN Len(Candidates) ELSE at - 1
             perf == Performance(sc, done)
         IN  /\ model_performance' = perf
             /\ models' = [ i \in 1..done |-> Candidates[i] ]
             /\ IF at = 0
                THEN /\ best_model_name' = BestModelName(perf)
                     /\ best_model' = FittedPipeline(BestModelName(perf))
                     /\ tPc' = "trained"
                ELSE /\ best_model_name' = best_model_name
                     /\ best_model' = best_model
                     /\ tPc' = "raised"
    /\ UNCHANGED <<ensemble_model, modelFile, metadataFile, tPredict>>
    /\ UNCHANGED <<startVars, predVars, featVars, apiVars>>

\* create_ensemble_predictor: a VotingRegressor of the top 3, fitted
CreateEnsemblePredictor ==
    /\ tPc = "trained"
    /\ \E raises \in BOOLEAN :
         IF raises
         THEN /\ tPc' = "raised"
              /\ ensemble_model' = ensemble_model
         ELSE /\ tPc' = "ensembled"
              /\ ensemble_model' = VotingRegressor(TopModels(model_performance))
    /\ UNCHANGED <<model_performance, models, best_model, best_model_name,
                   modelFile, metadataFile, tPredict>>
    /\ UNCHANGED <<startVars, predVars, featVars, apiVars>>

\* train(): the ensemble is evaluated on the held-out rows and stored as
\* self.best_model
EvaluateEnsemble ==
    /\ tPc = "ensembled"
    /\ \E raises \in BOOLEAN :
         IF raises
         THEN /\ tPc' = "raised"
              /\ best_model' = best_model
         ELSE /\ tPc' = "stored"
              /\ best_model' = FinalBestModel(best_model, ensemble_model)
    /\ UNCHANGED <<model_performance, models, best_model_name, ensemble_model,
                   modelFile, metadataFile, tPredict>>
    /\ UNCHANGED <<startVars, predVars, featVars, apiVars>>

\* save_models: joblib.dump(self.best_model, 'models/perfect_crop_price_model.pkl')
\* and json.dump(metadata, ...); then train() returns
SaveModels ==
    /\ tPc = "stored"
    /\ tPc' = "done"
    /\ modelFile' = best_model
    /\ metadataFile' = [ model_performance |-> model_performance,
                         training_timestamp |-> 1, best_model |-> "ensemble" ]
    /\ artifact' = "ok"
    /\ UNCHANGED <<model_performance, models, best_model, best_model_name, ensemble_model,
                   tPredict>>
    /\ UNCHANGED <<variant, atStart, dataFile, phase, modelLoaded, fitted, users, predictions,
                   alerts, issued, now, served, resp>>
    /\ UNCHANGED <<startVars, predVars, featVars>>

\* predict() on the predictor train() was called on
PredictOnTrainer ==
    /\ tPc \in {"done", "raised"}
    /\ tPredict = NoResult
    /\ tPredict' = [ on |-> "trainer", out |-> Predict(best_model) ]
    /\ UNCHANGED <<tPc, model_performance, models, best_model, best_model_name,
                   ensemble_model, modelFile, metadataFile>>
    /\ UNCHANGED <<startVars, predVars, featVars, apiVars>>

\* predict() on a new PerfectCropPricePredictor() (__init__: best_model = None)
PredictOnFresh ==
    /\ tPc \in {"done", "raised"}
    /\ tPredict = NoResult
    /\ tPredict' = [ on |-> "fresh", out |-> Predict(NoBestModel) ]
    /\ UNCHANGED <<tPc, model_performance, models, best_model, best_model_name,
                   ensemble_model, modelFile, metadataFile>>
    /\ UNCHANGED <<startVars, predVars, featVars, apiVars>>

TrainNext ==
    \/ TrainLoadAndPrepare
    \/ TrainSplit
    \/ TrainEnsembleModels
    \/ CreateEnsemblePredictor
    \/ EvaluateEnsemble
    \/ SaveModels
    \/ PredictOnTrainer
    \/ PredictOnFresh

SpecTrain == TrainInit /\ [][TrainNext]_vars

(***************************************************************************)
(* Claims about the feature derivation (SpecFeat).                         *)
(***************************************************************************)

\* C6: for every row, every feature column has the same value when
\* load_and_prepare_data computes it as when _apply_feature_engineering
\* computes it from the row's raw fields (numbers compared as numbers, NaN
\* taken equal to NaN).
C6_DerivationsAgree ==
    (fTrain # NoResult /\ fPred # NoResult)
    => \A c \in FeatureColumns :
          LET a == fTrain[c]
              b == fPred[c]
          IN  IF a.kind \in {"num", "bool"} /\ b.kind \in {"num", "bool"}
              THEN a.n * b.d = b.n * a.d
              ELSE IF a.kind = "sqrt" /\ b.kind \in {"num", "bool"}
              THEN b.n * b.d >= 0 /\ a.n * b.d * b.d = b.n * b.n * a.d
              ELSE a.kind = b.kind /\ a.s = b.s

(***************************************************************************)
(* Claims about the prediction result (SpecPredict).                       *)
(***************************************************************************)

\* C3: every returned prediction result has a confidence_interval of exactly
\* two elements and, with p the returned 2-decimal predicted_price, its lower
\* bound is within 0.01 of 0.9*p and its upper bound within 0.01 of 1.1*p
\* (compared here in 1/1000 INR: 10*ci against 9*p and 11*p, tolerance 10).
C3_IntervalWithinTolerance ==
    pOut # NoResult =>
        /\ Len(pOut.confidence_interval) = 2
        /\ Abs(10 * pOut.confidence_interval[1] - 9 * pOut.predicted_price) <= 10
        /\ Abs(10 * pOut.confidence_interval[2] - 11 * pOut.predicted_price) <= 10

\* C3 witness: a result whose upper bound, rounded from the unrounded model
\* output, sits the full 0.01 away from 1.1 times the rounded price.
C3_Witness ==
    /\ pOut # NoResult
    /\ pRaw > 0
    /\ pRaw % 100 # 0
    /\ Abs(10 * pOut.confidence_interval[2] - 11 * pOut.predicted_price) = 10

\* C4: the predicted_price of a successful prediction is non-negative, whatever
\* value the fitted model produced.
C4_PriceNonNegative ==
    pOut # NoResult => pOut.predicted_price >= 0

\* C5: in every successful prediction the confidence interval brackets the
\* point estimate, confidence_interval[0] <= predicted_price <=
\* confidence_interval[1], and the currency is "INR".
C5_IntervalBracketsPrice ==
    pOut # NoResult =>
        /\ pOut.confidence_interval[1] <= pOut.predicted_price
        /\ pOut.predicted_price <= pOut.confidence_interval[2]
        /\ pOut.currency = "INR"


(***************************************************************************)
(* Claims about the service (Spec).                                        *)
(***************************************************************************)

\* C1: in every variant, while the model handle is None, a prediction request
\* (POST /predict, POST /api/predict, POST /predict/batch) that neither
\* authentication nor validation rejects is answered 503, without feature
\* derivation or the model being reached and without a predictions row written.
C1_AbsentHandleAnswers503 ==
    [][ ( /\ served' = served + 1
          /\ resp'.ep \in {"predict", "batch"}
          /\ ~modelLoaded
          /\ resp'.status \notin {401, 422} )
        => ( /\ resp'.status = 503
             /\ ~resp'.derived
             /\ predictions' = predictions ) ]_vars

\* C1 witness: the perfect variant without a handle answered an authenticated,
\* valid batch of two requests with 503.
C1_Witness ==
    /\ ~modelLoaded
    /\ resp.ep = "batch"
    /\ resp.req.tok.good
    /\ resp.req.inRange
    /\ resp.req.n = 2
    /\ resp.status = 503

C7_OutOfRangeRejected ==
    ( /\ resp.ep \in {"predict", "batch"}
      /\ ~resp.req.inRange )
    => ( /\ resp.status \in {401, 422}
         /\ ~resp.derived )

\* C8: with a handle loaded, an exception raised in the try block of a
\* prediction handler (feature derivation, inference, insights, the summary of
\* an empty batch, the history INSERT) is answered 400 with the exception's
\* message; a prediction handler never answers 500, the process keeps serving,
\* and 503 is answered only without a handle.
C8_HandlerFailuresAnswer400 ==
    resp.ep \in {"predict", "batch"}
    => ( /\ phase = "serving"
         /\ (modelLoaded => resp.status # 500)
         /\ (resp.status = 503 => ~modelLoaded)
         /\ ( ( /\ modelLoaded
                /\ resp.entered
                /\ (resp.req.fault # "none" \/ resp.req.n = 0) )
              => ( /\ resp.status = 400
                   /\ resp.detail # "" ) ) )

\* C8 witness: a batch whose second history INSERT raised was answered 400.
C8_Witness ==
    /\ modelLoaded
    /\ resp.ep = "batch"
    /\ resp.req.fault = "persist"
    /\ resp.req.at = 2
    /\ resp.status = 400

\* C9: no two users rows share a username or an email; POST /register with a
\* username or an email of a stored row is answered 400 'Username or email
\* already registered' and leaves the users table as it was; with a fresh
\* username and email it appends exactly one row, for that username and email.
C9_RegistrationKeepsUsersUnique ==
    /\ [](\A i, j \in 1..Len(users) :
            i # j => ( /\ users[i].username # users[j].username
                       /\ users[i].email # users[j].email ))
    /\ [][ (served' = served + 1 /\ resp'.ep = "register")
           => IF \E i \in 1..Len(users) :
                    \/ users[i].username = resp'.req.username
                    \/ users[i].email = resp'.req.email
              THEN /\ resp'.status = 400
                   /\ resp'.detail = "Username or email already registered"
                   /\ users' = users
              ELSE /\ Len(users') = Len(users) + 1
                   /\ SubSeq(users', 1, Len(users)) = users
                   /\ users'[Len(users')].username = resp'.req.username
                   /\ users'[Len(users')].email = resp'.req.email ]_vars

\* C9 witness: a registration with a fresh username but the email of a stored
\* row was answered 400.
C9_Witness ==
    /\ resp.ep = "register"
    /\ resp.status = 400
    /\ \A i \in 1..Len(users) : users[i].username # resp.req.username
    /\ \E i \in 1..Len(users) : users[i].email = resp.req.email

\* C10: POST /token returns a token (for that user, expiring 30 minutes later)
\* exactly when the username is stored and the password matches its hash, and
\* answers 401 otherwise; a protected endpoint runs its handler body only for a
\* token the service issued, not yet expired, whose subject is a stored user,
\* and otherwise answers 401 and changes no table and no token.
C10_TokensGateProtectedEndpoints ==
    /\ [][ (served' = served + 1 /\ resp'.ep = "token")
           => IF \E i \in 1..Len(users) :
                    /\ users[i].username = resp'.req.username
                    /\ users[i].hashed_password = <<"bcrypt", resp'.req.password>>
              THEN /\ resp'.status = 200
                   /\ resp'.body.sub = resp'.req.username
                   /\ resp'.body.exp = now + 30
                   /\ issued' = issued \cup {resp'.body}
              ELSE /\ resp'.status = 401
                   /\ issued' = issued ]_vars
    /\ [][ ( /\ served' = served + 1
             /\ variant \in AuthVariants
             /\ resp'.ep \in {"predict", "batch", "history", "alerts_post",
                              "alerts_get", "dashboard"} )
           => ( /\ (resp'.entered => resp'.req.tok.good)
                /\ (~resp'.req.tok.good
                    => ( /\ resp'.status = 401
                         /\ UNCHANGED <<users, predictions, alerts, issued>> )) ) ]_vars

\* C10 witness: a history request presenting a token the service had issued,
\* by then expired, was answered 401.
C10_Witness ==
    /\ resp.ep = "history"
    /\ resp.req.tok.wasIssued
    /\ ~resp.req.tok.good
    /\ resp.status = 401

(***************************************************************************)
(* History and alerts (SpecStore)                                          *)
(***************************************************************************)

\* C11: a history page answered to user U holds only rows whose user_id is
\* U's id, in non-increasing timestamp order, and at most `limit` of them.
C11_HistoryScopedOrderedCapped ==
    (resp.ep = "history" /\ resp.status = 200)
    => /\ \A k \in 1..Len(resp.body) :
            predictions[resp.body[k].id].user_id = GetUser(resp.req.tok.sub).id
       /\ \A k \in 1..(Len(resp.body) - 1) :
            resp.body[k].timestamp >= resp.body[k + 1].timestamp
       /\ Len(resp.body) <= resp.req.limit

\* C12: a successful POST /alerts by user U adds one active price_alerts row
\* with U's id and the crop and target price of the request, rows once added
\* stay as they are, and a GET /alerts answered to a user lists, with their crop
\* and target price, all the active alerts of that user and no alert of anyone
\* else.
C12_AlertsListedToOwnerOnly ==
    /\ [][ (served' = served + 1 /\ resp'.ep = "alerts_post" /\ resp'.status = 201)
           => /\ Len(alerts') = Len(alerts) + 1
              /\ alerts'[Len(alerts')].user_id = GetUser(resp'.req.tok.sub).id
              /\ alerts'[Len(alerts')].crop = resp'.req.crop
              /\ alerts'[Len(alerts')].target_price = resp'.req.target_price
              /\ alerts'[Len(alerts')].is_active ]_vars
    /\ [][ /\ Len(alerts') >= Len(alerts)
           /\ \A i \in 1..Len(alerts) : alerts'[i] = alerts[i] ]_vars
    /\ []( (resp.ep = "alerts_get" /\ resp.status = 200)
           => /\ \A k \in 1..Len(resp.body) :
                    \E i \in 1..Len(alerts) :
                        /\ alerts[i].id = resp.body[k].id
                        /\ alerts[i].user_id = GetUser(resp.req.tok.sub).id
                        /\ alerts[i].crop = resp.body[k].crop
                        /\ alerts[i].target_price = resp.body[k].target_price
              /\ \A i \in 1..Len(alerts) :
                    (alerts[i].user_id = GetUser(resp.req.tok.sub).id /\ alerts[i].is_active)
                    => \E k \in 1..Len(resp.body) : resp.body[k].id = alerts[i].id )

\* C12 witness: alice, who set an alert for Rice at 2500.00 in this run, was
\* listed that alert and only that one, while the table also holds bob's alert.
C12_Witness ==
    /\ resp.ep = "alerts_get"
    /\ resp.status = 200
    /\ resp.req.tok.sub = "alice"
    /\ Len(alerts) = 2
    /\ alerts[1].user_id = GetUser("bob").id
    /\ Len(resp.body) = 1
    /\ resp.body[1].id = 2
    /\ resp.body[1].crop = "Rice"
    /\ resp.body[1].target_price = 250000

(***************************************************************************)
(* Batch prediction (Spec)                                                 *)
(***************************************************************************)

\* C13: a batch of n >= 1 items answered 200 carries n results, the i-th being
\* the prediction for the i-th item; its summary has total_predictions = n, an
\* average_price that is the mean of the results' predicted_price to the
\* nearest cent, and price_range = [smallest, largest predicted_price].
C13_BatchSummaryMatchesResults ==
    [][ (served' = served + 1 /\ resp'.ep = "batch" /\ resp'.status = 200)
        => LET n  == resp'.req.n
               r  == resp'.body.results
               sm == resp'.body.summary
           IN  /\ n >= 1
               /\ Len(r) = n
               /\ \A i \in 1..n :
                     /\ r[i].predicted_price = RoundedPrice(fitted[BatchBody(n)[i].crop])
                     /\ predictions'[Len(predictions) + i].input_data = BatchBody(n)[i]
               /\ sm.total_predictions = n
               /\ 2 * Abs(n * sm.average_price - SumPrices(r)) <= n
               /\ \E i \in 1..n : sm.price_range[1] = r[i].predicted_price
               /\ \E i \in 1..n : sm.price_range[2] = r[i].predicted_price
               /\ \A i \in 1..n : /\ sm.price_range[1] <= r[i].predicted_price
                                   /\ sm.price_range[2] >= r[i].predicted_price ]_vars

\* C13 witness: a two-item batch was answered 200 with two different prices,
\* the first the larger, and a summary spanning them.
C13_Witness ==
    /\ resp.ep = "batch"
    /\ resp.status = 200
    /\ Len(resp.body.results) = 2
    /\ resp.body.results[1].predicted_price > resp.body.results[2].predicted_price
    /\ resp.body.summary.total_predictions = 2
    /\ resp.body.summary.price_range =
          << resp.body.results[2].predicted_price, resp.body.results[1].predicted_price >>

\* C14: a POST /predict, /predict/batch, /register or /alerts request that is
\* answered with an error leaves the users, predictions and price_alerts
\* tables exactly as they were.
C14_FailedRequestsLeaveTables ==
    [][ ( /\ served' = served + 1
          /\ resp'.ep \in {"predict", "batch", "register", "alerts_post"}
          /\ resp'.status \notin {200, 201} )
        => UNCHANGED <<users, predictions, alerts>> ]_vars

(***************************************************************************)
(* The model handle (Spec)                                                 *)
(***************************************************************************)

\* C15: once the service is serving, no step changes the model handle; every
\* GET /health answer reports model_loaded equal to the handle's presence; and
\* a prediction request that reaches its handler is answered 503 exactly when
\* the handle is absent.
C15_HandleFixedAndReported ==
    /\ [][ phase = "serving" => UNCHANGED <<modelLoaded, fitted>> ]_vars
    /\ []( resp.ep = "health" => resp.body.model_loaded = modelLoaded )
    /\ []( (resp.ep \in {"predict", "batch"} /\ resp.entered)
           => (resp.status = 503 <=> ~modelLoaded) )
    /\ []( (resp.ep \in {"predict", "batch"} /\ resp.status = 503) => resp.entered )

\* C15 witness: after a prediction was answered 200 and stored, GET /health
\* reported model_loaded true.
C15_Witness ==
    /\ resp.ep = "health"
    /\ resp.body.model_loaded
    /\ served >= 2
    /\ Len(predictions) >= 1

(***************************************************************************)
(* Training (SpecTrain)                                                    *)
(***************************************************************************)

\* C16: when train() has returned, self.best_model is the fitted voting
\* ensemble of three candidates and not the single best pipeline; that same
\* object is what models/perfect_crop_price_model.pkl holds and what predict()
\* uses; the metadata file names the best model 'ensemble' and holds the
\* scores of all seven candidates.
C16_TrainedModelIsEnsemble ==
    tPc = "done"
    => /\ best_model.kind = "ensemble"
       /\ Len(best_model.members) = 3
       /\ best_model.fit = 1
       /\ best_model # FittedPipeline(best_model_name)
       /\ modelFile = best_model
       /\ metadataFile.best_model = "ensemble"
       /\ Len(metadataFile.model_performance) = 7
       /\ \A i \in 1..7 :
            /\ metadataFile.model_performance[i].name = Candidates[i]
            /\ metadataFile.model_performance[i].r2 = model_performance[i].r2
       /\ (tPredict # NoResult /\ tPredict.on = "trainer")
          => (tPredict.out.raised = "" /\ tPredict.out.model = modelFile)

\* C16 witness: train() returned over the files of an earlier training and
\* predict() was then called on the trained predictor.
C16_Witness ==
    /\ tPc = "done"
    /\ atStart = "ok"
    /\ modelFile # EarlierModelFile
    /\ tPredict # NoResult
    /\ tPredict.on = "trainer"

\* C17: the name train_ensemble_models returns has the highest held-out R2 of
\* the seven candidates; the ensemble has three distinct members, each scoring
\* at least as high as every candidate left out, a left-out candidate with the
\* same score being defined later; and the returned name is a member.
C17_BestAndTopThree ==
    LET idx(name) == CHOOSE i \in 1..Len(Candidates) : Candidates[i] = name
        r2(name)  == model_performance[idx(name)].r2
        members   == { ensemble_model.members[k] : k \in 1..Len(ensemble_model.members) }
        all       == { Candidates[i] : i \in 1..Len(Candidates) }
    IN  /\ best_model_name # ""
           => /\ Len(model_performance) = 7
              /\ best_model_name \in all
              /\ \A c \in all : r2(best_model_name) >= r2(c)
        /\ ensemble_model # NoBestModel
           => /\ Len(ensemble_model.members) = 3
              /\ Cardinality(members) = 3
              /\ members \subseteq all
              /\ \A m \in members, c \in all \ members :
                    r2(m) > r2(c) \/ (r2(m) = r2(c) /\ idx(m) < idx(c))
              /\ best_model_name \in members

\* C17 witness: Ridge scored highest, the three tree models tied behind it,
\* and the ensemble took Ridge and the first two of the tied ones.
C17_Witness ==
    /\ ensemble_model # NoBestModel
    /\ best_model_name = "Ridge"
    /\ model_performance[1].r2 = model_performance[2].r2
    /\ model_performance[2].r2 = model_performance[3].r2
    /\ ensemble_model.members = << "Ridge", "RandomForest", "GradientBoosting" >>

\* C18: a missing or malformed training input makes train() raise, and when
\* train() has raised (at the input or at any later step before save_models)
\* the model and metadata files are as they were before the call, and
\* predict() on a new predictor raises 'Model not trained yet'.
C18_FailedTrainingWritesNothing ==
    /\ dataFile # "ok" => tPc \in {"start", "raised"}
    /\ tPc = "raised"
       => /\ modelFile = (IF atStart = "ok" THEN EarlierModelFile ELSE NoFile)
          /\ metadataFile = (IF atStart = "ok" THEN EarlierMetadataFile ELSE NoFile)
          /\ artifact = atStart
          /\ (tPredict # NoResult /\ tPredict.on = "fresh")
             => /\ tPredict.out.raised = "Model not trained yet. Call train() first."
                /\ tPredict.out.model = NoBestModel

\* C18 witness: train() raised after train_ensemble_models had completed, with
\* no model file present before, and predict() was called on a new predictor.
C18_Witness ==
    /\ tPc = "raised"
    /\ best_model_name # ""
    /\ atStart = "absent"
    /\ modelFile = NoFile
    /\ tPredict # NoResult
    /\ tPredict.on = "fresh"

(***************************************************************************)
(* Season and weather stress (SpecDerive)                                  *)
(***************************************************************************)

\* C19: for every month of 1..12 the season is Winter for 12, 1, 2, Spring
\* for 3, 4, 5, Summer for 6, 7, 8 and Autumn for 9, 10, 11, in the training
\* derivation, the prediction derivation, the quick model and the simple API.
C19_SeasonOfMonth ==
    LET m == fData[fRow].month
        season == CASE m \in {12, 1, 2}   -> "Winter"
                    [] m \in {3, 4, 5}    -> "Spring"
                    [] m \in {6, 7, 8}    -> "Summer"
                    [] m \in {9, 10, 11}  -> "Autumn"
    IN  /\ fTrain  # NoResult => fTrain.season  = Str(season)
        /\ fPred   # NoResult => fPred.season   = Str(season)
        /\ fQuick  # NoResult => fQuick.season  = Str(season)
        /\ fSimple # NoResult => fSimple.season = Str(season)

\* C19 witness: a December row went through all four derivations.
C19_Witness ==
    /\ fData[fRow].month = 12
    /\ fTrain # NoResult
    /\ fPred # NoResult
    /\ fQuick # NoResult
    /\ fSimple # NoResult
    /\ fQuick.season = Str("Winter")

\* C20: weather_stress is 1 when the temperature is above 35 or the rainfall
\* below 10, and 0 otherwise (35 and 10 themselves give 0), in the training
\* derivation and in the prediction derivation alike.
C20_WeatherStressThresholds ==
    LET t == fData[fRow].temperature
        r == fData[fRow].rainfall
        stressed == IF t > 35 \/ r < 10 THEN Num(1, 1) ELSE Num(0, 1)
    IN  /\ fTrain # NoResult => fTrain.weather_stress = stressed
        /\ fPred  # NoResult => fPred.weather_stress  = stressed

\* C20 witness: a row with temperature 35 and rainfall 10 was derived both
\* ways, with weather_stress 0.
C20_Witness ==
    /\ fData[fRow].temperature = 35
    /\ fData[fRow].rainfall = 10
    /\ fTrain # NoResult
    /\ fPred # NoResult
    /\ fTrain.weather_stress = Num(0, 1)
    /\ fPred.weather_stress = Num(0, 1)

(***************************************************************************)
(* Lookup tables (SpecFeat)                                                *)
(***************************************************************************)

\* C21: in both derivations a crop, state or soil type that its lookup table
\* does not hold yields the default ('Other', 1.0, 1.0) and never a missing
\* value, and a key the table holds yields its table value.
C21_UnknownKeysGetDefaults ==
    LET row == fData[fRow]
        defaults(f) ==
            /\ f.crop_category.kind = "str"
            /\ f.state_economic_factor.kind = "num"
            /\ f.soil_productivity.kind = "num"
            /\ f.crop_category =
                 (IF CropCategory(row.crop) = NaN THEN Str("Other")
                  ELSE CropCategory(row.crop))
            /\ f.state_economic_factor =
                 (IF StateEconomicFactor(row.state) = NaN THEN Num(1, 1)
                  ELSE StateEconomicFactor(row.state))
            /\ f.soil_productivity =
                 (IF SoilProductivity(row.soil_type) = NaN THEN Num(1, 1)
                  ELSE SoilProductivity(row.soil_type))
    IN  /\ fTrain # NoResult => defaults(fTrain)
        /\ fPred  # NoResult => defaults(fPred)

(***************************************************************************)
(* Repeated derivation (SpecCalls)                                         *)
(***************************************************************************)

C23_UnseenCategoryReturnsPrice ==
    (pOut # NoResult /\ Unseen(encoders, pPath, pIn) # {}) =>
        /\ pOut.status = 200
        /\ pOut.result = PathResult(pPath, pRaw)
        /\ \A col \in Unseen(encoders, pPath, pIn) :
             pOut.encoded[col] = [ c \in encoders[col] |-> 0 ]

\* the same statement for the three paths that encode with
\* OneHotEncoder(handle_unknown='ignore')
OneHotPathsReturnPrice ==
    (pPath # "basic" /\ pOut # NoResult /\ Unseen(encoders, pPath, pIn) # {}) =>
        /\ pOut.status = 200
        /\ pOut.result = PathResult(pPath, pRaw)
        /\ \A col \in Unseen(encoders, pPath, pIn) :
             pOut.encoded[col] = [ c \in encoders[col] |-> 0 ]

OneHotUnseenReached ==
    /\ pPath # "basic"
    /\ pOut # NoResult
    /\ Unseen(encoders, pPath, pIn) = {"crop", "state", "soil_type"}

(***************************************************************************)
(* main_enhanced (Spec)                                                    *)
(***************************************************************************)

\* C24: in the enhanced variant, when the trained artifacts were present at
\* startup the prediction function is loaded: GET /health reports
\* model_loaded true and an authenticated, valid POST /predict is not
\* answered 503.
C24_EnhancedLoadsPresentArtifacts ==
    (variant = "enhanced" /\ phase = "serving" /\ atStart = "ok") =>
        /\ modelLoaded
        /\ resp.ep = "health" => resp.body.model_loaded
        /\ (resp.ep = "predict" /\ resp.entered) => resp.status # 503

\* C25: in the enhanced variant the handlers that scope by user complete for
\* an authenticated user: POST /alerts answers 201 and a row with that
\* user's id is stored; GET /alerts and GET /predictions/history answer 200
\* with a list.
C25_EnhancedUserScopedHandlersComplete ==
    (variant = "enhanced" /\ resp.entered) =>
        /\ resp.ep = "alerts_post" =>
             /\ resp.status = 201
             /\ \E i \in 1..Len(alerts) : alerts[i].user_id = GetUser(resp.req.tok.sub).id
        /\ resp.ep \in {"alerts_get", "history"} => resp.status = 200

(***************************************************************************)
(* main_perfect: dashboard (Spec)                                          *)
(***************************************************************************)

\* C26: GET /analytics/dashboard by an authenticated user succeeds in every
\* database state and reports the user's number of predictions, the number
\* of the user's active alerts and at most five recent predictions (zeros
\* and an empty list when the user has none).
C26_DashboardAlwaysSucceeds ==
    (resp.ep = "dashboard" /\ resp.entered) =>
        LET uid == GetUser(resp.req.tok.sub).id
        IN  /\ resp.status = 200
            /\ resp.body.total_predictions = Cardinality(OwnedPredictions(uid))
            /\ resp.body.active_alerts = Cardinality(OwnedAlerts(uid, TRUE))
            /\ Len(resp.body.recent_predictions) <= 5

(***************************************************************************)
(* The startup script (SpecStart)                                          *)
(***************************************************************************)

\* C27: start_ai_service.main runs check_dependencies, check_data_file,
\* train_model and start_service in this order; a step runs only if every
\* step before it returned True, so the first False ends the run; training
\* is attempted only with the data file present, and the service is started
\* only with the model file present.
C27_StartupStepsInOrder ==
    /\ Len(sLog) <= Len(StartSteps)
    /\ \A i \in 1..Len(sLog) :
         /\ sLog[i].step = StartSteps[i]
         /\ \A j \in 1..(i - 1) : sLog[j].ret
         /\ (sLog[i].step = "train_model" /\ sLog[i].ran) => sLog[i].data = "ok"
         /\ sLog[i].step = "start_service" => sLog[i].model # "absent"
    /\ (sLog # << >> /\ ~sLog[Len(sLog)].ret) => sPc = "done"

\* C27 witness: the service was started after the data file was generated
\* and the model trained in this run.
C27_Witness ==
    /\ Len(sLog) = 4
    /\ sLog[2].ran
    /\ sLog[3].ran
    /\ sLog[4].step = "start_service"
    /\ sPc = "done"

(***************************************************************************)
(* main_perfect: what writes the tables (Spec)                             *)
(***************************************************************************)

\* the rows of user `uid` a request added, by its response: one for a
\* POST /predict answered 200, one per inserted item for a POST /predict/batch
RowsAddedFor(uid, r) ==
    IF ~r.entered \/ ~r.derived THEN 0
    ELSE IF GetUser(r.req.tok.sub).id # uid THEN 0
    ELSE IF r.ep = "predict" THEN (IF r.status = 200 THEN 1 ELSE 0)
    ELSE IF r.ep = "batch"
         THEN (IF r.status = 200 THEN r.req.n ELSE r.req.at - 1)
    ELSE 0

\* C28: a POST /predict of the perfect variant answered 200 appends exactly
\* one predictions row, with the caller's id, the request input and the
\* returned result (market_insights and recommendations included), and
\* changes nothing else; no step changes or removes a stored row, and the
\* number of each user's rows grows by one per successful single prediction
\* and by one per inserted batch item.
C28_PredictAppendsOneRow ==
    [][ /\ Len(predictions') >= Len(predictions)
        /\ SubSeq(predictions', 1, Len(predictions)) = predictions
        /\ \A i \in 1..Len(users) :
             Cardinality({ k \in 1..Len(predictions') :
                             predictions'[k].user_id = users[i].id })
               = Cardinality(OwnedPredictions(users[i].id))
                   + (IF served' = served THEN 0 ELSE RowsAddedFor(users[i].id, resp'))
        /\ (served' # served /\ resp'.ep = "predict" /\ resp'.status = 200) =>
             \A tok \in PresentableTokens, inp \in ApiInputs :
                PredictPerfect(tok, inp) =>
                   /\ Len(predictions') = Len(predictions) + 1
                   /\ predictions'[Len(predictions')].user_id = GetUser(tok.sub).id
                   /\ predictions'[Len(predictions')].input_data = inp
                   /\ predictions'[Len(predictions')].prediction_result = resp'.body
                   /\ {"market_insights", "recommendations"}
                         \subseteq DOMAIN predictions'[Len(predictions')].prediction_result
                   /\ UNCHANGED <<users, alerts, issued>>
      ]_vars

\* C28 witness: one user has three rows, the first from a single prediction
\* and two from a batch.
C28_Witness ==
    /\ variant = "perfect"
    /\ Len(predictions) = 3
    /\ \A k \in 1..3 : predictions[k].user_id = users[1].id
    /\ "market_insights" \in DOMAIN predictions[1].prediction_result
    /\ resp.ep = "batch"
    /\ resp.status = 200

\* every predictions row and every price_alerts row names a stored user
RowsNameStoredUsers ==
    /\ \A k \in 1..Len(predictions) :
         \E i \in 1..Len(users) : users[i].id = predictions[k].user_id
    /\ \A k \in 1..Len(alerts) :
         \E i \in 1..Len(users) : users[i].id = alerts[k].user_id

\* the users rows stay as they are (rows are only added), and every issued
\* token that has not expired after the step resolves to the user it
\* resolved to before
UsersAndTokensStable ==
    /\ Len(users') >= Len(users)
    /\ \A i \in 1..Len(users) :
         /\ users'[i].id = users[i].id
         /\ users'[i].username = users[i].username
         /\ users'[i].email = users[i].email
    /\ \A tok \in issued :
         (HasUser(tok.sub) /\ ~(tok.exp < now')) =>
            /\ tok \in issued'
            /\ CurrentUserOk(tok)'
            /\ GetUser(tok.sub)' = GetUser(tok.sub)

\* C29: in the perfect variant every predictions row and every price_alerts
\* row has the id of a stored users row as its user_id; users rows are never
\* removed and keep their id, username and email; a token issued for a user
\* resolves to that same user until it expires.
C29_RowsBelongToStableUsers ==
    /\ [](variant = "perfect" => RowsNameStoredUsers)
    /\ [][variant = "perfect" => UsersAndTokensStable]_vars

\* C29 witness: a user registered in this run holds a token, a predictions
\* row or a price_alerts row, next to the user stored before.
C29_Witness ==
    /\ variant = "perfect"
    /\ Len(users) = 2
    /\ \E tok \in issued : CurrentUserOk(tok) /\ GetUser(tok.sub).id = 2
    /\ Len(alerts) = 1
    /\ alerts[1].user_id = 2

\* every stored alert is active and was never triggered (triggered_at is
\* null), and GET /alerts gives each user the same rows with and without
\* active_only
AlertsStayActive ==
    /\ \A k \in 1..Len(alerts) : alerts[k].is_active /\ ~alerts[k].triggered
    /\ \A i \in 1..Len(users) :
         AlertRows(users[i].id, TRUE) = AlertRows(users[i].id, FALSE)

\* the price_alerts table changes only by the row a POST /alerts answered
\* 201 appends
OnlyCreateWritesAlerts ==
    alerts' # alerts =>
        /\ served' # served
        /\ resp'.ep = "alerts_post"
        /\ resp'.status = 201
        /\ Len(alerts') = Len(alerts) + 1
        /\ SubSeq(alerts', 1, Len(alerts)) = alerts

\* C30: no endpoint other than POST /alerts modifies price_alerts; a
\* prediction that reaches an alert's target_price does not trigger it, so
\* every stored alert keeps is_active true and triggered_at null, and
\* GET /alerts returns the same rows for active_only true and false.
C30_AlertsNeverTriggered ==
    /\ [](variant = "perfect" => AlertsStayActive)
    /\ [][variant = "perfect" => OnlyCreateWritesAlerts]_vars

\* C30 witness: a prediction for the crop of a stored alert was answered with
\* a price at or above the alert's target, and the alert is as it was stored.
C30_Witness ==
    /\ variant = "perfect"
    /\ resp.ep = "predict"
    /\ resp.status = 200
    /\ Len(alerts) = 1
    /\ Len(predictions) = 1
    /\ predictions[1].input_data.crop = alerts[1].crop
    /\ resp.body.predicted_price >= alerts[1].target_price
    /\ alerts[1].is_active

====
